---- MODULE Spec2Model ----
(***************************************************************************)
(* A model of the ai-stocks-bridge security pipeline.                      *)
(*                                                                         *)
(*   rate-limiter.js   the token bucket (createRateLimiter)                *)
(*   index.js          the violation log / ban state, runCli and the HTTP  *)
(*                     request handler                                     *)
(*   token-auth.js     the credential: createTokenAuth and validate        *)
(*   security.js       wrapPrompt and sanitizeOutput                       *)
(*                                                                         *)
(* The specifications:                                                     *)
(*   SpecRL    a single bucket driven by tryConsume() / remaining() calls  *)
(*             with a millisecond clock;                                   *)
(*   Spec      the HTTP server of index.js: concurrent requests whose      *)
(*             handlers interleave at their awaits;                        *)
(*   SpecBan   recordViolation() / isBanned() over ban-length times;       *)
(*   SpecAuth  process starts on one credential file, validate() calls;    *)
(*   SpecGuard wrapPrompt on one prompt;                                   *)
(*   SpecSan   sanitizeOutput on one text.                                 *)
(*                                                                         *)
(* Date.now() is modelled as a clock that never goes backwards and that    *)
(* does not advance inside one synchronous run of JavaScript.              *)
(***************************************************************************)
EXTENDS Integers, Sequences, FiniteSets, TLC

VARIABLES
    now,               \* Date.now()
    capacity,          \* rate-limiter.js: createRateLimiter's opts.capacity
    refillIntervalMs,  \* rate-limiter.js: createRateLimiter's opts.refillIntervalMs
    tokens,            \* rate-limiter.js: let tokens
    lastRefill,        \* rate-limiter.js: let lastRefill
    \* observers of the bucket (history, not program state)
    t0,                \* the creation instant
    credited,          \* the tokens added to the bucket by refill() so far
    capBound,          \* TRUE once Math.min(capacity, ...) has cut a credit
    lastCallAt,        \* the instant of the latest tryConsume()/remaining() call
    emptiedAt,         \* an instant at which a call left the bucket empty, or -1
    due,               \* TRUE when now = emptiedAt + refillIntervalMs was reached by waiting
    results,           \* the return values of the first tryConsume() calls at this instant
    lastRemaining,     \* the value the latest remaining() call returned, or -1
    shTokens,          \* tokens of a twin bucket that gets the tryConsume() calls only
    shLastRefill,      \* lastRefill of the twin bucket
    calls,             \* tryConsume() calls made before the first refill interval ended
    oks,               \* how many of those calls returned true
    lastRet,           \* <<v>> when the latest step was a tryConsume() returning v, else <<>>
    okTimes,           \* the instants of the tryConsume() calls that returned true, in order
    \* index.js
    violations,        \* index.js: const violations = [] (timestamps, oldest first)
    bannedUntil,       \* index.js: let bannedUntil
    activeClis,        \* index.js: let activeClis
    req,               \* the requests being handled: where each handler is suspended
    \* observers of the server (history, not program state)
    last,              \* what the latest handler step called and answered
    banStart,          \* the latest instant at which recordViolation() reached the threshold, or -1
    sinceClear,        \* the instants, no more than a window old, of the recordViolation()
                       \* calls made since a ban last emptied the log
    \* token-auth.js
    tokenFile,         \* the credential file bridge.token: [kind, text]
    authToken,         \* createTokenAuth: let token (<<>> while no auth object exists)
    \* observers of the token authority (history, not program state)
    heldBefore,        \* what the credential file held when the latest init began
    generated,         \* TRUE when the latest init called crypto.randomUUID()
    inits,             \* inits completed so far
    lastValidate,      \* <<candidate, result>> of the latest validate() call, or <<>>
    rejected,          \* validate() calls that returned false so far
    \* security.js
    prompt,            \* the userPrompt handed to wrapPrompt
    wrapped,           \* what wrapPrompt(prompt) did, or NotRun
    text,              \* the text handed to sanitizeOutput
    home,              \* process.env.HOME set or not
    sanitized,         \* what sanitizeOutput(text) returned, or NotRun
    \* crypto.js
    sendToken,         \* the token the encrypting side derives its key from
    plaintext,         \* the string handed to encrypt
    shortTags,         \* TRUE when the runtime's setAuthTag takes tags shorter than 16 bytes
    envelope,          \* the {iv, ciphertext} on its way to decrypt, or NoEnvelope
    tamper,            \* what was done to the envelope on the way ("none" if nothing)
    openToken,         \* the token the decrypting side derives its key from (<<>> before)
    sendKey,           \* the key encrypt was given, or NoKey
    openKey,           \* the key decrypt was given, or NoKey
    openImpl,          \* what derived openKey: "node" (crypto.js), "web" (WebCrypto), "-" before
    decrypted,         \* what decrypt(envelope, openKey) did, or NotRun
    \* security.js: sanitizeEnv
    env,               \* the environment handed to sanitizeEnv
    cleanEnv,          \* what sanitizeEnv(env) returned, or NotRun
    \* the runtime index.js runs on
    argsChecked,       \* TRUE when execFile throws on an argument that holds U+0000
    \* security.js: the RegExp objects of the module
    lastIndex,         \* the lastIndex property of each pattern object
    \* index.js: one CLI process and execFile's callback
    child,             \* how the process ended: [err, killed, stdout, stderr]
    cliResult          \* what runCli's promise was resolved with, or NotRun

rlVars == <<now, capacity, refillIntervalMs, tokens, lastRefill>>
rlObs == <<t0, credited, capBound, lastCallAt, emptiedAt, due, results, lastRemaining>>
twinObs == <<shTokens, shLastRefill, calls, oks, lastRet, okTimes>>
srvVars == <<violations, bannedUntil, activeClis, req>>
srvObs == <<last, banStart, sinceClear>>
authVars == <<tokenFile, authToken>>
authObs == <<heldBefore, generated, inits, lastValidate, rejected>>
guardVars == <<prompt, wrapped>>
sanVars == <<text, home, sanitized>>
cryptoVars ==
    <<sendToken, plaintext, shortTags, envelope, tamper, openToken, sendKey, openKey, openImpl,
      decrypted>>
envVars == <<env, cleanEnv>>
extVars == <<cryptoVars, envVars, argsChecked, lastIndex, child, cliResult>>
libVars == <<authVars, authObs, guardVars, sanVars, extVars>>
vars == <<rlVars, rlObs, twinObs, srvVars, srvObs, libVars>>

\* ---------------------------------------------------------------- bounds

MaxCapacity == 3
MaxRefillIntervalMs == 3
MaxT0 == 1
MaxNowRL == 8
\* Spec: the requests handled at once, the CLIs one /multi-analyze request may
\* name, and the milliseconds the server is followed for.
MaxReqs == 2
MaxClis == 3
MaxNow == 1
\* SpecConc: the refill intervals that may pass
MaxIntervals == 1
\* SpecBan: the half-windows the violation tracker is followed for.
MaxBanSteps == 34
\* SpecAuth: the characters of the credential file, the process starts and the
\* rejected validate() calls that are counted.
MaxFileLen == 3
MaxInits == 3
MaxRejected == 3
\* SpecGuard: the pieces of a prompt after its run of spaces, and how far below
\* MAX_PROMPT_LENGTH the run of spaces may end.
MaxTail == 4
MaxPadGap == 4
\* SpecSan: the pieces before and after a text's run of spaces, and how far
\* below MAX_RESPONSE_SIZE the run of spaces may end.
MaxSanPieces == 2
MaxSanGap == 9
\* SpecCrypto: the code units of a short string, the values randomBytes() may
\* return; a long string has LongLength code units.
MaxTextLen == 2
MaxIv == 2
LongLength == 4000
\* SpecEnv: the variables of an environment
MaxEnvKeys == 3

Min(a, b) == IF a < b THEN a ELSE b
Max(a, b) == IF a > b THEN a ELSE b

\* ------------------------------------------------------- rate-limiter.js

\* refill() with Math.min dropped: the bucket grows without bound while idle.
refillNoCap(tk, lr, t) ==
    LET elapsed == t - lr
        newTokens == elapsed \div refillIntervalMs
    IN  IF newTokens > 0
        THEN [tokens |-> tk + newTokens,
              lastRefill |-> lr + newTokens * refillIntervalMs]
        ELSE [tokens |-> tk, lastRefill |-> lr]

\* refill() setting lastRefill to now: the fraction of an interval is dropped.
refillToNow(tk, lr, t) ==
    LET elapsed == t - lr
        newTokens == elapsed \div refillIntervalMs
    IN  IF newTokens > 0
        THEN [tokens |-> Min(capacity, tk + newTokens), lastRefill |-> t]
        ELSE [tokens |-> tk, lastRefill |-> lr]

\* refill() forgetting to advance lastRefill: every call credits the interval again.
refillNoAdvance(tk, lr, t) ==
    LET elapsed == t - lr
        newTokens == elapsed \div refillIntervalMs
    IN  IF newTokens > 0
        THEN [tokens |-> Min(capacity, tk + newTokens), lastRefill |-> lr]
        ELSE [tokens |-> tk, lastRefill |-> lr]

\* refill() crediting two tokens for every interval.
refillDouble(tk, lr, t) ==
    LET elapsed == t - lr
        newTokens == elapsed \div refillIntervalMs
    IN  IF newTokens > 0
        THEN [tokens |-> Min(capacity, tk + 2 * newTokens),
              lastRefill |-> lr + newTokens * refillIntervalMs]
        ELSE [tokens |-> tk, lastRefill |-> lr]

\* refill(): the bucket (tk, lr) after a refill at instant t.
refill(tk, lr, t) ==
    LET elapsed == t - lr
        newTokens == elapsed \div refillIntervalMs
    IN  IF newTokens > 0
        THEN [tokens |-> Min(capacity, tk + newTokens),
              lastRefill |-> lr + newTokens * refillIntervalMs]
        ELSE [tokens |-> tk, lastRefill |-> lr]

\* tryConsume() taking a token without looking at the count.
tryConsumeNoGuard(tk, lr, t) ==
    LET b == refill(tk, lr, t)
    IN  [tokens |-> b.tokens - 1, lastRefill |-> b.lastRefill, ret |-> TRUE]

\* tryConsume(): the bucket after the call at instant t, and what it returns.
tryConsume(tk, lr, t) ==
    LET b == refill(tk, lr, t)
    IN  IF b.tokens > 0
        THEN [tokens |-> b.tokens - 1, lastRefill |-> b.lastRefill, ret |-> TRUE]
        ELSE [tokens |-> b.tokens, lastRefill |-> b.lastRefill, ret |-> FALSE]

\* remaining() taking a token when there is one, as tryConsume() does.
remainingTakes(tk, lr, t) ==
    LET b == refill(tk, lr, t)
    IN  IF b.tokens > 0
        THEN [tokens |-> b.tokens - 1, lastRefill |-> b.lastRefill, ret |-> b.tokens]
        ELSE [tokens |-> b.tokens, lastRefill |-> b.lastRefill, ret |-> b.tokens]

\* remaining(): the bucket after the call at instant t, and what it returns.
remaining(tk, lr, t) ==
    LET b == refill(tk, lr, t)
    IN  [tokens |-> b.tokens, lastRefill |-> b.lastRefill, ret |-> b.tokens]

\* What one refill() at instant t adds to the observers.
ObserveRefill(t) ==
    LET newTokens == (t - lastRefill) \div refillIntervalMs
        b == refill(tokens, lastRefill, t)
    IN  /\ credited' = credited + (b.tokens - tokens)
        /\ capBound' = (capBound \/ tokens + newTokens > capacity)
        /\ lastCallAt' = t

\* The twin bucket and the call counters at the bucket's creation.
InitTwin ==
    /\ shTokens = capacity
    /\ shLastRefill = lastRefill
    /\ calls = 0
    /\ oks = 0
    /\ lastRet = <<>>
    /\ okTimes = <<>>

\* The pattern objects of security.js that the model has: one of each list of
\* wrapPrompt, INVISIBLE_CHARS, and three of SENSITIVE_PATTERNS. A RegExp
\* object is created with lastIndex 0.
RegexNames == {"shell", "injection", "ssrf", "invisible", "apiKey", "awsKey", "credential"}
InitRegex == lastIndex = [re \in RegexNames |-> 0]

\* token-auth.js and security.js before anything in them has run.
NotRun == [done |-> FALSE]
\* No CLI process has ended.
NoChild == [err |-> FALSE, killed |-> FALSE, stdout |-> <<>>, stderr |-> <<>>]
InitChild == child = NoChild /\ cliResult = NotRun
NoFile == [kind |-> "missing", mode |-> "-", text |-> <<>>]
NoEnvelope == [iv |-> <<>>, ciphertext |-> <<>>]
NoKey == [hash |-> "-", ikm |-> <<>>, salt |-> "-", info |-> "-", length |-> 0]
\* No string was encrypted and no environment was sanitized.
InitExt ==
    /\ sendToken = <<>>
    /\ plaintext = <<>>
    /\ shortTags = FALSE
    /\ envelope = NoEnvelope
    /\ tamper = [op |-> "none", at |-> 0]
    /\ openToken = <<>>
    /\ sendKey = NoKey
    /\ openKey = NoKey
    /\ openImpl = "-"
    /\ decrypted = NotRun
    /\ env = <<>>
    /\ cleanEnv = NotRun

InitLib ==
    /\ InitExt
    /\ tokenFile = NoFile
    /\ authToken = <<>>
    /\ heldBefore = NoFile
    /\ generated = FALSE
    /\ inits = 0
    /\ lastValidate = <<>>
    /\ rejected = 0
    /\ prompt = <<>>
    /\ wrapped = NotRun
    /\ text = <<>>
    /\ home = FALSE
    /\ sanitized = NotRun

\* createRateLimiter({capacity, refillIntervalMs}) at instant t0.
InitRL ==
    /\ capacity \in 1..MaxCapacity
    /\ refillIntervalMs \in 1..MaxRefillIntervalMs
    /\ t0 \in 0..MaxT0
    /\ now = t0
    /\ tokens = capacity
    /\ lastRefill = t0
    /\ credited = 0
    /\ capBound = FALSE
    /\ lastCallAt = t0
    /\ emptiedAt = -1
    /\ due = FALSE
    /\ results = <<>>
    /\ lastRemaining = -1
    /\ InitTwin
    /\ violations = <<>>
    /\ bannedUntil = 0
    /\ activeClis = 0
    /\ req = <<>>
    /\ last = <<>>
    /\ banStart = -1
    /\ sinceClear = <<>>
    /\ argsChecked = TRUE
    /\ InitRegex
    /\ InitChild
    /\ InitLib

\* A caller calls tryConsume().
RLTryConsume ==
    LET r == tryConsume(tokens, lastRefill, now)
    IN  /\ tokens' = r.tokens
        /\ lastRefill' = r.lastRefill
        /\ ObserveRefill(now)
        /\ results' = IF Len(results) < 2 THEN Append(results, r.ret) ELSE results
        /\ emptiedAt' \in
              IF r.tokens > 0 THEN {-1}
              ELSE IF r.ret \/ emptiedAt = -1 THEN {now}
              ELSE {now, emptiedAt}
        /\ LET sh == tryConsume(shTokens, shLastRefill, now)
           IN  /\ shTokens' = sh.tokens
               /\ shLastRefill' = sh.lastRefill
        /\ IF now - t0 < refillIntervalMs /\ calls < capacity + 2
           THEN /\ calls' = calls + 1
                /\ oks' = IF r.ret THEN oks + 1 ELSE oks
           ELSE UNCHANGED <<calls, oks>>
        /\ lastRet' = <<r.ret>>
        /\ okTimes' = IF r.ret THEN Append(okTimes, now) ELSE okTimes
        /\ UNCHANGED <<now, capacity, refillIntervalMs, t0, due, lastRemaining>>
        /\ UNCHANGED <<srvVars, srvObs, libVars>>

\* A caller calls remaining().
RLRemaining ==
    LET r == remaining(tokens, lastRefill, now)
    IN  /\ tokens' = r.tokens
        /\ lastRefill' = r.lastRefill
        /\ ObserveRefill(now)
        /\ lastRemaining' = r.ret
        /\ lastRet' = <<>>
        /\ UNCHANGED <<now, capacity, refillIntervalMs, t0, emptiedAt, due, results>>
        /\ UNCHANGED <<shTokens, shLastRefill, calls, oks, okTimes>>
        /\ UNCHANGED <<srvVars, srvObs, libVars>>

\* One millisecond passes with no call.
RLTick ==
    /\ now < MaxNowRL
    /\ now' = now + 1
    /\ results' = <<>>
    /\ due' = (emptiedAt # -1 /\ now + 1 = emptiedAt + refillIntervalMs)
    /\ UNCHANGED <<capacity, refillIntervalMs, tokens, lastRefill,
                   t0, credited, capBound, lastCallAt, emptiedAt, lastRemaining>>
    /\ lastRet' = <<>>
    /\ UNCHANGED <<shTokens, shLastRefill, calls, oks, okTimes>>
    /\ UNCHANGED <<srvVars, srvObs, libVars>>

NextRL == RLTryConsume \/ RLRemaining \/ RLTick

SpecRL == InitRL /\ [][NextRL]_vars

\* --------------------------------------------------------------- index.js

MAX_CONCURRENT_CLI == 5
BAN_THRESHOLD == 5
BAN_WINDOW_MS == 60000
BAN_DURATION_MS == 15 * 60000
\* createRateLimiter({ capacity: 15, refillIntervalMs: 6000 })
ServerCapacity == 15
ServerRefillIntervalMs == 6000

\* The keys of CLI_REGISTRY.
CLI_REGISTRY == {"claude", "gemini", "codex"}
\* The names which(info.cmd) found at startup: here a machine with claude and
\* gemini installed and codex missing.
CLI_PATHS == {"claude", "gemini"}

\* JavaScript values handed to validate(): a string with its characters,
\* undefined, null.
Str(s) == [type |-> "string", chars |-> s]
Undefined == [type |-> "undefined", chars |-> <<>>]
Null == [type |-> "null", chars |-> <<>>]

\* auth.getToken(): the credential fixed by createTokenAuth() at startup.
token == <<"u">>
\* A request without the X-Bridge-Token header (the header reads undefined).
NoToken == Undefined
\* What the X-Bridge-Token header of a request may hold.
TokenInputs == {Str(token), Str(<<"v">>), Str(<<>>), NoToken}

\* validate(input) locking out after two rejected calls.
validateLockout(tk, input) ==
    IF input.type # "string" \/ input.chars = <<>> THEN FALSE
    ELSE rejected < 2 /\ input.chars = tk

\* validate(input) in the closure whose token is tk: !input rejects undefined,
\* null and "", then an exact match.
validate(tk, input) ==
    IF input.type # "string" \/ input.chars = <<>> THEN FALSE
    ELSE input.chars = tk

\* ---- crypto.js
\* A string is the sequence of its UTF-16 code units; a byte is a number, or,
\* for the bytes of an authentication tag, the position j in the tag that
\* AES-256-GCM computes under a key and an iv for a ciphertext (mac). A tag
\* is taken to be unforgeable: two tags agree only when they were computed
\* from the same key, iv and ciphertext.

IV_LENGTH == 12
\* the 16 of raw.length - 16
TAG_LENGTH == 16
SALT == "ai-stocks-bridge-v1-salt"
INFO == "bridge-prompt-encryption"

\* "a", "u", "v", e with acute, a CJK ideograph, the two halves of U+1F4C8,
\* and the replacement character
Units == {"a", "u", "v", "U+00E9", "U+4E2D", "U+D83D", "U+DCC8", "U+FFFD"}
IsHigh(u) == u = "U+D83D"
IsLow(u) == u = "U+DCC8"
Byte(v) == [v |-> v, mac |-> <<>>, j |-> 0]
Bytes(q) == [i \in 1..Len(q) |-> Byte(q[i])]

\* The UTF-8 bytes of one code unit; a surrogate on its own is encoded as U+FFFD.
Utf8Unit(u) ==
    CASE u = "a" -> Bytes(<<97>>)
      [] u = "u" -> Bytes(<<117>>)
      [] u = "v" -> Bytes(<<118>>)
      [] u = "U+00E9" -> Bytes(<<195, 169>>)
      [] u = "U+4E2D" -> Bytes(<<228, 184, 173>>)
      [] OTHER -> Bytes(<<239, 191, 189>>)
\* The UTF-8 bytes of U+1F4C8, a high surrogate followed by a low one.
Utf8Pair == Bytes(<<240, 159, 147, 136>>)

\* Where to cut a string of three or more code units in two without
\* separating a surrogate pair.
UnitCut(s) ==
    LET h == Len(s) \div 2
    IN  IF IsHigh(s[h]) /\ IsLow(s[h + 1]) THEN h + 1 ELSE h

\* cipher.update(plaintext, "utf8"), Buffer.from(s, "utf8"), TextEncoder.encode(s)
RECURSIVE Utf8Encode(_)
Utf8Encode(s) ==
    IF s = <<>> THEN <<>>
    ELSE IF Len(s) = 1 THEN Utf8Unit(s[1])
    ELSE IF Len(s) = 2
    THEN (IF IsHigh(s[1]) /\ IsLow(s[2]) THEN Utf8Pair
          ELSE Utf8Unit(s[1]) \o Utf8Unit(s[2]))
    ELSE Utf8Encode(SubSeq(s, 1, UnitCut(s))) \o Utf8Encode(SubSeq(s, UnitCut(s) + 1, Len(s)))

\* A continuation byte 10xxxxxx.
IsCont(b) == b.v \in 128..191
\* The code units of one UTF-8 sequence; U+FFFD for what is not one.
DecodeOne(b) ==
    IF b = Utf8Pair THEN <<"U+D83D", "U+DCC8">>
    ELSE IF \E u \in {"a", "u", "v", "U+00E9", "U+4E2D"} : b = Utf8Unit(u)
    THEN <<CHOOSE u \in {"a", "u", "v", "U+00E9", "U+4E2D"} : b = Utf8Unit(u)>>
    ELSE <<"U+FFFD">>
Abs(x) == IF x < 0 THEN 0 - x ELSE x
\* Where a sequence begins nearest to the middle of b (the middle if none
\* begins within three bytes of it).
ByteCut(b) ==
    LET mid == Len(b) \div 2 + 1
        starts == {i \in Max(2, mid - 3)..Min(mid + 3, Len(b)) : ~IsCont(b[i])}
    IN  IF starts = {} THEN mid
        ELSE CHOOSE i \in starts :
                \A k \in starts : Abs(i - mid) < Abs(k - mid) \/ (Abs(i - mid) = Abs(k - mid) /\ i <= k)

\* buffer.toString("utf8")
RECURSIVE Utf8Decode(_)
Utf8Decode(b) ==
    IF b = <<>> THEN <<>>
    ELSE IF Len(b) <= 4 /\ \A i \in 2..Len(b) : IsCont(b[i]) THEN DecodeOne(b)
    ELSE Utf8Decode(SubSeq(b, 1, ByteCut(b) - 1)) \o Utf8Decode(SubSeq(b, ByteCut(b), Len(b)))

\* buffer.toString("base64"): one group of four characters for every three
\* bytes, the last group holding the one or two bytes that are left.
toBase64(b) ==
    [g \in 1..((Len(b) + 2) \div 3) |-> SubSeq(b, 3 * g - 2, Min(3 * g, Len(b)))]
\* Buffer.from(s, "base64")
fromBase64(s) ==
    IF s = <<>> THEN <<>>
    ELSE [i \in 1..(3 * (Len(s) - 1) + Len(s[Len(s)])) |->
             s[(i + 2) \div 3][((i - 1) % 3) + 1]]

\* HKDF with a hash, the input key material, a salt, an info and the key's
\* length in bytes: a value that names its inputs.
Hkdf(hash, ikm, salt, info, length) ==
    [hash |-> hash, ikm |-> ikm, salt |-> salt, info |-> info, length |-> length]

\* deriveKey() with the info constant in the place of the salt.
deriveKeySaltIsInfo(tok) == Hkdf("SHA-256", Utf8Encode(tok), INFO, INFO, 32)

\* deriveKey(token): crypto.hkdfSync("sha256", token, SALT, INFO, 32)
deriveKey(tok) == Hkdf("SHA-256", Utf8Encode(tok), SALT, INFO, 32)

\* webDeriveKey(token): importKey("raw", enc.encode(token), "HKDF") and
\* deriveKey({HKDF, SHA-256, salt, info}, ..., {AES-GCM, length: 256})
webDeriveKey(tok) ==
    Hkdf("SHA-256", Utf8Encode(tok), "ai-stocks-bridge-v1-salt",
         "bridge-prompt-encryption", 256 \div 8)

RECURSIVE SumBytes(_)
SumBytes(b) == IF b = <<>> THEN 0 ELSE Head(b).v + SumBytes(Tail(b))
\* Byte i of the key stream AES-256 in counter mode makes from a key and an
\* iv: some number that is fixed by the three.
KeyStream(key, iv, i) ==
    (SumBytes(key.ikm) + Len(key.salt) + 7 * SumBytes(iv) + 13 * i) % 256

\* cipher.getAuthTag(): the 16 bytes of the tag of a ciphertext.
AuthTag(key, iv, encrypted) ==
    [j \in 1..TAG_LENGTH |-> [v |-> 0 - 1, mac |-> <<key, iv, encrypted>>, j |-> j]]

\* crypto.randomBytes(IV_LENGTH)
randomBytes(r) == [i \in 1..IV_LENGTH |-> Byte(IF i = 1 THEN r ELSE 0)]

\* encrypt(plaintext, key), iv being what crypto.randomBytes(IV_LENGTH) returned.
encrypt(s, key, iv) ==
    LET p == Utf8Encode(s)
        encrypted == [i \in 1..Len(p) |-> Byte((p[i].v + KeyStream(key, iv, i)) % 256)]
        tag == AuthTag(key, iv, encrypted)
    IN  [iv |-> toBase64(iv), ciphertext |-> toBase64(encrypted \o tag)]

\* buf.subarray(start, end): a negative index counts from the end.
subarray(b, start, end) ==
    LET from == IF start < 0 THEN Max(Len(b) + start, 0) ELSE Min(start, Len(b))
        to == IF end < 0 THEN Max(Len(b) + end, 0) ELSE Min(end, Len(b))
    IN  SubSeq(b, from + 1, to)

\* The tag lengths decipher.setAuthTag() takes for GCM when createDecipheriv
\* was given no authTagLength.
TagLengths(short) == IF short THEN {4, 8, 12, 13, 14, 15, 16} ELSE {TAG_LENGTH}

Thrown0 == [done |-> TRUE, ok |-> FALSE, text |-> <<>>]

\* decrypt() taking the last 12 bytes as the tag.
decryptTag12(data, key, short) ==
    LET iv == fromBase64(data.iv)
        raw == fromBase64(data.ciphertext)
        tag == subarray(raw, Len(raw) - 12, Len(raw))
        encrypted == subarray(raw, 0, Len(raw) - 12)
        plain == [i \in 1..Len(encrypted) |->
                     Byte((encrypted[i].v + 256 - KeyStream(key, iv, i)) % 256)]
    IN  IF Len(tag) \notin TagLengths(short) THEN Thrown0
        ELSE IF tag # SubSeq(AuthTag(key, iv, encrypted), 1, Len(tag)) THEN Thrown0
        ELSE [done |-> TRUE, ok |-> TRUE, text |-> Utf8Decode(plain)]

\* decrypt(data, key): the last 16 bytes are the tag, setAuthTag() throws on a
\* tag of a length it does not take, final() throws when the tag is not the
\* one of the ciphertext under this key and iv; only then is the text returned.
decrypt(data, key, short) ==
    LET iv == fromBase64(data.iv)
        raw == fromBase64(data.ciphertext)
        tag == subarray(raw, Len(raw) - TAG_LENGTH, Len(raw))
        encrypted == subarray(raw, 0, Len(raw) - TAG_LENGTH)
        plain == [i \in 1..Len(encrypted) |->
                     Byte((encrypted[i].v + 256 - KeyStream(key, iv, i)) % 256)]
    IN  IF Len(tag) \notin TagLengths(short) THEN Thrown0
        ELSE IF tag # SubSeq(AuthTag(key, iv, encrypted), 1, Len(tag)) THEN Thrown0
        ELSE [done |-> TRUE, ok |-> TRUE, text |-> Utf8Decode(plain)]


\* isEncryptedPrompt(prompt): an object with an iv and a ciphertext (a prompt
\* that is a string is the record of its spaces and its pieces).
isEncryptedPrompt(p) == {"iv", "ciphertext"} \subseteq DOMAIN p

\* ---- security.js: wrapPrompt

\* A text is a run of `pad` spaces followed by the pieces of `tail`. A piece is
\* one code point or a word a pattern looks for; Width is its length in
\* UTF-16 code units. U+200B (zero width space) is one of INVISIBLE_CHARS,
\* U+FF5C (fullwidth vertical line) is a compatibility form of "|".
Pieces == {"a", " ", "|", "sh", "U+FF5C", "U+200B",
           "new", "instructions:", "http://", "127."}
Width(x) ==
    CASE x = "sh" -> 2
      [] x = "new" -> 3
      [] x = "instructions:" -> 13
      [] x = "http://" -> 7
      [] x = "127." -> 4
      [] OTHER -> 1
RECURSIVE Widths(_)
Widths(q) == IF q = <<>> THEN 0 ELSE Width(Head(q)) + Widths(Tail(q))
\* userPrompt.length
Length(p) == p.pad + Widths(p.tail)

MAX_PROMPT_LENGTH == 4000
INVISIBLE_CHARS == {"U+200B"}

\* String.prototype.normalize("NFKC") on the pieces, one by one.
NFKC(x) == IF x = "U+FF5C" THEN "|" ELSE x
RECURSIVE normalize(_)
normalize(q) ==
    IF q = <<>> THEN <<>> ELSE <<NFKC(Head(q))>> \o normalize(Tail(q))
\* .replace(INVISIBLE_CHARS, "")
RECURSIVE strip(_)
strip(q) ==
    IF q = <<>> THEN <<>>
    ELSE IF Head(q) \in INVISIBLE_CHARS THEN strip(Tail(q))
    ELSE <<Head(q)>> \o strip(Tail(q))
\* userPrompt.normalize("NFKC").replace(INVISIBLE_CHARS, "")
Cleaned(q) == strip(normalize(q))

\* q[i..] starts with zero or more spaces followed by the piece x.
RECURSIVE SpacesThen(_, _, _)
SpacesThen(q, i, x) ==
    IF i > Len(q) THEN FALSE
    ELSE IF q[i] = x THEN TRUE
    ELSE IF q[i] = " " THEN SpacesThen(q, i + 1, x)
    ELSE FALSE
\* SHELL_PATTERNS: /\|\s*(bash|sh|zsh|cmd)/i
ShellPattern(q) == \E i \in 1..Len(q) : q[i] = "|" /\ SpacesThen(q, i + 1, "sh")
\* INJECTION_PATTERNS: /new\s+instructions?:/i
InjectionPattern(q) ==
    \E i \in 1..Len(q) :
        /\ q[i] = "new"
        /\ i + 1 <= Len(q) /\ q[i + 1] = " "
        /\ SpacesThen(q, i + 2, "instructions:")
\* SSRF_PATTERNS: /https?:\/\/127\./
SsrfPattern(q) ==
    \E i \in 1..Len(q) : q[i] = "http://" /\ i + 1 <= Len(q) /\ q[i + 1] = "127."

Matches(category, q) ==
    CASE category = "shell" -> ShellPattern(q)
      [] category = "injection" -> InjectionPattern(q)
      [] category = "ssrf" -> SsrfPattern(q)

\* The three pattern loops of wrapPrompt run in the order `order` on the text
\* q: the category of the first loop that throws, or "none".
RECURSIVE FirstMatch(_, _)
FirstMatch(order, q) ==
    IF order = <<>> THEN "none"
    ELSE IF Matches(Head(order), q) THEN Head(order)
    ELSE FirstMatch(Tail(order), q)
CheckOrder == <<"shell", "injection", "ssrf">>

\* What wrapPrompt returns or throws.
Thrown(category, got) ==
    [done |-> TRUE, ok |-> FALSE, error |-> category, got |-> got,
     pad |-> 0, request |-> <<>>]
\* `<system_constraints>...<user_request>\n${cleaned}\n</user_request>`
Returned(pad, cleaned) ==
    [done |-> TRUE, ok |-> TRUE, error |-> "none", got |-> 0,
     pad |-> pad, request |-> cleaned]

\* wrapPrompt() measuring the cleaned text instead of the raw one.
wrapPromptLengthAfterClean(p) ==
    LET cleaned == Cleaned(p.tail)
        found == FirstMatch(CheckOrder, cleaned)
    IN  IF p.pad + Widths(cleaned) > MAX_PROMPT_LENGTH
        THEN Thrown("tooLong", p.pad + Widths(cleaned))
        ELSE IF found # "none" THEN Thrown(found, 0)
        ELSE Returned(p.pad, cleaned)

\* wrapPrompt() without its SSRF loop.
wrapPromptNoSsrf(p) ==
    LET cleaned == Cleaned(p.tail)
        found == FirstMatch(<<"shell", "injection">>, cleaned)
    IN  IF Length(p) > MAX_PROMPT_LENGTH THEN Thrown("tooLong", Length(p))
        ELSE IF found # "none" THEN Thrown(found, 0)
        ELSE Returned(p.pad, cleaned)

\* wrapPrompt() testing its patterns on the raw text.
wrapPromptRawPatterns(p) ==
    LET cleaned == Cleaned(p.tail)
        found == FirstMatch(CheckOrder, p.tail)
    IN  IF Length(p) > MAX_PROMPT_LENGTH THEN Thrown("tooLong", Length(p))
        ELSE IF found # "none" THEN Thrown(found, 0)
        ELSE Returned(p.pad, cleaned)

\* wrapPrompt(userPrompt): the length check on the raw text, the cleaning, the
\* shell, injection and SSRF loops on the cleaned text, then the wrapping.
wrapPrompt(p) ==
    LET cleaned == Cleaned(p.tail)
        found == FirstMatch(CheckOrder, cleaned)
    IN  IF Length(p) > MAX_PROMPT_LENGTH THEN Thrown("tooLong", Length(p))
        ELSE IF found # "none" THEN Thrown(found, 0)
        ELSE Returned(p.pad, cleaned)

\* The prompts the server is given: a plain one, "| sh", "new instructions:",
\* and an overlong one that also names a loopback address.
Prompts ==
    {[pad |-> 0, tail |-> <<"a">>],
     [pad |-> 0, tail |-> <<"|", " ", "sh">>],
     [pad |-> 0, tail |-> <<"new", " ", "instructions:">>],
     [pad |-> MAX_PROMPT_LENGTH, tail |-> <<"http://", "127.">>]}

\* while (violations.length > 0 && violations[0] < now - BAN_WINDOW_MS) violations.shift()
RECURSIVE Prune(_, _)
Prune(v, t) ==
    IF Len(v) > 0 /\ v[1] < t - BAN_WINDOW_MS THEN Prune(Tail(v), t) ELSE v

\* recordViolation() banning one violation early.
recordViolationEarly(v, bu, t) ==
    LET pruned == Prune(Append(v, t), t)
    IN  IF Len(pruned) >= BAN_THRESHOLD - 1
        THEN [violations |-> <<>>, bannedUntil |-> t + BAN_DURATION_MS, banned |-> TRUE]
        ELSE [violations |-> pruned, bannedUntil |-> bu, banned |-> FALSE]

\* recordViolation() without its pruning loop.
recordViolationNoPrune(v, bu, t) ==
    LET pruned == Append(v, t)
    IN  IF Len(pruned) >= BAN_THRESHOLD
        THEN [violations |-> <<>>, bannedUntil |-> t + BAN_DURATION_MS, banned |-> TRUE]
        ELSE [violations |-> pruned, bannedUntil |-> bu, banned |-> FALSE]

\* recordViolation() banning for the window's length instead of the ban's.
recordViolationShortBan(v, bu, t) ==
    LET pruned == Prune(Append(v, t), t)
    IN  IF Len(pruned) >= BAN_THRESHOLD
        THEN [violations |-> <<>>, bannedUntil |-> t + BAN_WINDOW_MS, banned |-> TRUE]
        ELSE [violations |-> pruned, bannedUntil |-> bu, banned |-> FALSE]

\* recordViolation() at instant t on the log v and the deadline bu: the new log,
\* the new deadline, and whether this call reached the threshold.
recordViolation(v, bu, t) ==
    LET pruned == Prune(Append(v, t), t)
    IN  IF Len(pruned) >= BAN_THRESHOLD
        THEN [violations |-> <<>>, bannedUntil |-> t + BAN_DURATION_MS, banned |-> TRUE]
        ELSE [violations |-> pruned, bannedUntil |-> bu, banned |-> FALSE]

\* isBanned()
isBanned(bu, t) == t < bu

\* ---- runCli(name, userPrompt), up to its execFile call

\* The part of the state one synchronous run of the handler works on.
Work(h) ==
    [violations |-> violations, bannedUntil |-> bannedUntil, activeClis |-> activeClis,
     tokens |-> tokens, lastRefill |-> lastRefill,
     hist |-> h, started |-> 0, banned |-> FALSE, threw |-> FALSE]

\* runCli() starting the process without wrapping the prompt.
runCliNoWrap(w, name, p, t) ==
    IF name \notin CLI_REGISTRY THEN w
    ELSE IF name \notin CLI_PATHS THEN w
    ELSE IF w.activeClis >= MAX_CONCURRENT_CLI THEN w
    ELSE [w EXCEPT !.activeClis = @ + 1,
                   !.started = @ + 1,
                   !.hist = @ \o <<"execFile">>]

\* execFile(cliPath, [...info.args, wrappedPrompt], ...) validates its
\* arguments before it spawns: on a runtime that checks them, an argument
\* holding U+0000 makes it throw; NFKC and INVISIBLE_CHARS leave U+0000 alone.
HasNul(q) == \E i \in 1..Len(q) : q[i] = "U+0000"

\* runCli(name, userPrompt) at instant t: the checks in the code's order; a
\* process is started (activeClis++, execFile) only when all of them pass.
\* activeClis++ comes before execFile: when execFile throws, the executor of
\* the promise ends there, no process runs and no callback will.
runCli(w, name, p, t) ==
    IF name \notin CLI_REGISTRY THEN w
    ELSE IF name \notin CLI_PATHS THEN w
    ELSE IF w.activeClis >= MAX_CONCURRENT_CLI THEN w
    ELSE IF ~wrapPrompt(p).ok
    THEN LET rv == recordViolation(w.violations, w.bannedUntil, t)
         IN  [w EXCEPT !.violations = rv.violations,
                       !.bannedUntil = rv.bannedUntil,
                       !.banned = @ \/ rv.banned,
                       !.hist = @ \o <<"wrapPrompt:throw", "recordViolation">>]
    ELSE IF argsChecked /\ HasNul(wrapPrompt(p).request)
    THEN [w EXCEPT !.activeClis = @ + 1,
                   !.threw = TRUE,
                   !.hist = @ \o <<"wrapPrompt:ok", "execFile:throw">>]
    ELSE [w EXCEPT !.activeClis = @ + 1,
                   !.started = @ + 1,
                   !.hist = @ \o <<"wrapPrompt:ok", "execFile">>]

\* clis.map((c) => runCli(c, body.prompt)): the executors run one after the other.
RECURSIVE runClis(_, _, _, _)
runClis(w, clis, p, t) ==
    IF clis = <<>> THEN w
    ELSE runClis(runCli(w, Head(clis), p, t), Tail(clis), p, t)

\* The loop of /multi-analyze working on a copy of the bucket: what its
\* tryConsume() calls take is not written back.
RECURSIVE consumeMoreLost(_, _, _)
consumeMoreLost(w, n, t) ==
    IF n <= 0 THEN [w |-> w, ok |-> TRUE]
    ELSE LET r == tryConsume(w.tokens, w.lastRefill, t)
         IN  IF r.ret
             THEN consumeMoreLost([w EXCEPT !.hist = Append(@, "tryConsume:ok")], n - 1, t)
             ELSE [w |-> [w EXCEPT !.hist = Append(@, "tryConsume:fail")], ok |-> FALSE]

\* for (let i = 1; i < clis.length; i++) if (!rateLimiter.tryConsume()) return 429:
\* n more tokens are asked for; ok is FALSE when one of the calls returned false.
RECURSIVE consumeMore(_, _, _)
consumeMore(w, n, t) ==
    IF n <= 0 THEN [w |-> w, ok |-> TRUE]
    ELSE LET r == tryConsume(w.tokens, w.lastRefill, t)
             w2 == [w EXCEPT !.tokens = r.tokens, !.lastRefill = r.lastRefill]
         IN  IF r.ret
             THEN consumeMore([w2 EXCEPT !.hist = Append(@, "tryConsume:ok")], n - 1, t)
             ELSE [w |-> [w2 EXCEPT !.hist = Append(@, "tryConsume:fail")], ok |-> FALSE]

\* ---- the request handler, from the request's arrival to its first await

\* detectClis(): the names of the registry that have a path.
detectClis == CLI_REGISTRY \cap CLI_PATHS
\* What GET /health answers: json(res, 200, {status, cli, version, security}).
healthResponse ==
    [status |-> "ok", cli |-> detectClis, version |-> "0.2.0", security |-> TRUE]

Methods == {"OPTIONS", "GET", "POST"}
Urls == {"/health", "/analyze", "/multi-analyze", "/other"}

\* The handler's outcome: the state it leaves and what it answered
\* ("pending" when it is suspended at an await).
Outcome(w, resp, pc) == [w |-> w, resp |-> resp, pc |-> pc]

\* The handler validating the token before it looks at the ban.
handleArrivalAuthFirst(method, hostOK, tok, url, t) ==
    LET w == Work(<<>>)
    IN  IF method = "OPTIONS" THEN Outcome(w, "204", "idle")
        ELSE IF ~hostOK THEN Outcome(w, "invalidHost", "idle")
        ELSE IF method = "POST" /\ ~validate(token, tok)
        THEN LET rv == recordViolation(w.violations, w.bannedUntil, t)
             IN  Outcome([w EXCEPT !.violations = rv.violations,
                                   !.bannedUntil = rv.bannedUntil,
                                   !.banned = rv.banned,
                                   !.hist = <<"validate:fail", "recordViolation">>],
                         "authError", "idle")
        ELSE IF isBanned(w.bannedUntil, t) THEN Outcome(w, "banned", "idle")
        ELSE IF url = "/health" /\ method = "GET" THEN Outcome(w, "health", "idle")
        ELSE IF method = "POST"
        THEN LET r == tryConsume(w.tokens, w.lastRefill, t)
                 w2 == [w EXCEPT !.tokens = r.tokens, !.lastRefill = r.lastRefill]
             IN  IF ~r.ret
                 THEN Outcome([w2 EXCEPT !.hist = <<"validate:ok", "tryConsume:fail">>],
                              "rateLimited", "idle")
                 ELSE IF url \in {"/analyze", "/multi-analyze"}
                 THEN Outcome([w2 EXCEPT !.hist = <<"validate:ok", "tryConsume:ok">>],
                              "pending", "body")
                 ELSE Outcome([w2 EXCEPT !.hist = <<"validate:ok", "tryConsume:ok">>],
                              "notFound", "idle")
        ELSE Outcome(w, "notFound", "idle")

\* The handler recording a rate-limit rejection as a violation.
handleArrivalRateViolation(method, hostOK, tok, url, t) ==
    LET w == Work(<<>>)
    IN  IF method = "OPTIONS" THEN Outcome(w, "204", "idle")
        ELSE IF ~hostOK THEN Outcome(w, "invalidHost", "idle")
        ELSE IF isBanned(w.bannedUntil, t) THEN Outcome(w, "banned", "idle")
        ELSE IF url = "/health" /\ method = "GET" THEN Outcome(w, "health", "idle")
        ELSE IF method = "POST" /\ ~validate(token, tok)
        THEN LET rv == recordViolation(w.violations, w.bannedUntil, t)
             IN  Outcome([w EXCEPT !.violations = rv.violations,
                                   !.bannedUntil = rv.bannedUntil,
                                   !.banned = rv.banned,
                                   !.hist = <<"validate:fail", "recordViolation">>],
                         "authError", "idle")
        ELSE IF method = "POST"
        THEN LET r == tryConsume(w.tokens, w.lastRefill, t)
                 w2 == [w EXCEPT !.tokens = r.tokens, !.lastRefill = r.lastRefill]
                 rv == recordViolation(w.violations, w.bannedUntil, t)
             IN  IF ~r.ret
                 THEN Outcome([w2 EXCEPT !.violations = rv.violations,
                                         !.bannedUntil = rv.bannedUntil,
                                         !.banned = rv.banned,
                                         !.hist = <<"validate:ok", "tryConsume:fail",
                                                    "recordViolation">>],
                              "rateLimited", "idle")
                 ELSE IF url \in {"/analyze", "/multi-analyze"}
                 THEN Outcome([w2 EXCEPT !.hist = <<"validate:ok", "tryConsume:ok">>],
                              "pending", "body")
                 ELSE Outcome([w2 EXCEPT !.hist = <<"validate:ok", "tryConsume:ok">>],
                              "notFound", "idle")
        ELSE Outcome(w, "notFound", "idle")

\* The handler answering an authentication failure without recording it.
handleArrivalAuthNoRecord(method, hostOK, tok, url, t) ==
    LET w == Work(<<>>)
    IN  IF method = "OPTIONS" THEN Outcome(w, "204", "idle")
        ELSE IF ~hostOK THEN Outcome(w, "invalidHost", "idle")
        ELSE IF isBanned(w.bannedUntil, t) THEN Outcome(w, "banned", "idle")
        ELSE IF url = "/health" /\ method = "GET" THEN Outcome(w, "health", "idle")
        ELSE IF method = "POST" /\ ~validate(token, tok)
        THEN Outcome([w EXCEPT !.hist = <<"validate:fail">>], "authError", "idle")
        ELSE IF method = "POST"
        THEN LET r == tryConsume(w.tokens, w.lastRefill, t)
                 w2 == [w EXCEPT !.tokens = r.tokens, !.lastRefill = r.lastRefill]
             IN  IF ~r.ret
                 THEN Outcome([w2 EXCEPT !.hist = <<"validate:ok", "tryConsume:fail">>],
                              "rateLimited", "idle")
                 ELSE IF url \in {"/analyze", "/multi-analyze"}
                 THEN Outcome([w2 EXCEPT !.hist = <<"validate:ok", "tryConsume:ok">>],
                              "pending", "body")
                 ELSE Outcome([w2 EXCEPT !.hist = <<"validate:ok", "tryConsume:ok">>],
                              "notFound", "idle")
        ELSE Outcome(w, "notFound", "idle")

\* http.createServer(async (req, res) => ...) from its first line to the first
\* await: OPTIONS, the Host check, the ban, /health, the token, the bucket,
\* then the route.
handleArrival(method, hostOK, tok, url, t) ==
    LET w == Work(<<>>)
    IN  IF method = "OPTIONS" THEN Outcome(w, "204", "idle")
        ELSE IF ~hostOK THEN Outcome(w, "invalidHost", "idle")
        ELSE IF isBanned(w.bannedUntil, t) THEN Outcome(w, "banned", "idle")
        ELSE IF url = "/health" /\ method = "GET" THEN Outcome(w, "health", "idle")
        ELSE IF method = "POST" /\ ~validate(token, tok)
        THEN LET rv == recordViolation(w.violations, w.bannedUntil, t)
             IN  Outcome([w EXCEPT !.violations = rv.violations,
                                   !.bannedUntil = rv.bannedUntil,
                                   !.banned = rv.banned,
                                   !.hist = <<"validate:fail", "recordViolation">>],
                         "authError", "idle")
        ELSE IF method = "POST"
        THEN LET r == tryConsume(w.tokens, w.lastRefill, t)
                 w2 == [w EXCEPT !.tokens = r.tokens, !.lastRefill = r.lastRefill]
             IN  IF ~r.ret
                 THEN Outcome([w2 EXCEPT !.hist = <<"validate:ok", "tryConsume:fail">>],
                              "rateLimited", "idle")
                 ELSE IF url \in {"/analyze", "/multi-analyze"}
                 THEN Outcome([w2 EXCEPT !.hist = <<"validate:ok", "tryConsume:ok">>],
                              "pending", "body")
                 ELSE Outcome([w2 EXCEPT !.hist = <<"validate:ok", "tryConsume:ok">>],
                              "notFound", "idle")
        ELSE Outcome(w, "notFound", "idle")

\* ---- the handler after `await readBody(req)`

\* The names a request may give as a CLI: one of the registry that is
\* installed, one of the registry that is not, one that is not in the registry.
CliNames == {"gemini", "codex", "nope"}
\* The names the lists of /multi-analyze requests are built from.
MultiCliNames == {"gemini", "nope"}

RECURSIVE SeqsUpTo(_, _)
SeqsUpTo(S, n) ==
    IF n = 0 THEN {<<>>}
    ELSE LET shorter == SeqsUpTo(S, n - 1)
         IN  shorter \cup {Append(q, x) : q \in {r \in shorter : Len(r) = n - 1}, x \in S}

\* The prompt "a" as the browser sends it encrypted: the envelope encrypt()
\* makes under the key of the session token.
EncryptedPrompt == encrypt(<<"a">>, deriveKey(token), randomBytes(0))

\* The bodies readBody() may deliver on a route: a rejection (invalid JSON,
\* too large), a body without a prompt, or a prompt, a string or an encrypted
\* envelope, with the CLI names it asks for (<<>> for cli / clis left out,
\* which selects the defaults).
Bodies(url) ==
    {[kind |-> "invalid"], [kind |-> "noPrompt"]}
    \cup [kind : {"prompt"}, prompt : Prompts,
          clis : IF url = "/analyze" THEN {<<>>} \cup {<<c>> : c \in CliNames}
                 ELSE IF url = "/multi-analyze" THEN SeqsUpTo(MultiCliNames, MaxClis)
                 ELSE {}]
    \cup [kind : {"envelope"}, prompt : {EncryptedPrompt},
          clis : IF url = "/analyze" THEN {<<>>} \cup {<<c>> : c \in CliNames}
                 ELSE IF url = "/multi-analyze" THEN SeqsUpTo(MultiCliNames, MaxClis)
                 ELSE {}]

\* audit(cli, origin, prompt, status) returns: (prompt || "").slice(0, 100) is
\* a call of a string's method; on a prompt that is an object it throws.
audit(p) == ~isEncryptedPrompt(p)

\* /analyze after the body: audit(..., "START"), then
\* runCli(body.cli || "gemini", body.prompt); what audit() throws, or the
\* rejection of runCli's promise, is caught and answered as a bad request.
handleAnalyzeBody(h, body, t) ==
    LET w == Work(h)
    IN  IF body.kind = "invalid" THEN Outcome(w, "badRequest", "idle")
        ELSE IF body.kind = "noPrompt" THEN Outcome(w, "promptRequired", "idle")
        ELSE IF ~audit(body.prompt) THEN Outcome(w, "badRequest", "idle")
        ELSE LET cli == IF body.clis = <<>> THEN "gemini" ELSE Head(body.clis)
                 w2 == runCli(w, cli, body.prompt, t)
             IN  IF w2.threw THEN Outcome(w2, "badRequest", "idle")
                 ELSE IF w2.started > 0 THEN Outcome(w2, "pending", "cli")
                 ELSE Outcome(w2, "cliError", "idle")

\* /multi-analyze without its loop of further tryConsume() calls.
handleMultiBodyNoLoop(h, body, t) ==
    LET w == Work(h)
    IN  IF body.kind = "invalid" THEN Outcome(w, "badRequest", "idle")
        ELSE IF body.kind = "noPrompt" THEN Outcome(w, "promptRequired", "idle")
        ELSE LET clis == IF body.clis = <<>> THEN <<"claude", "gemini">> ELSE body.clis
             IN  IF ~audit(body.prompt) THEN Outcome(w, "badRequest", "idle")
                 ELSE LET w2 == runClis(w, clis, body.prompt, t)
                      IN  IF w2.threw THEN Outcome(w2, "badRequest", "idle")
                          ELSE IF w2.started > 0 THEN Outcome(w2, "pending", "cli")
                          ELSE Outcome(w2, "multiResults", "idle")

\* /multi-analyze after the body: one more token per further CLI, audit(),
\* then every runCli() at once; what audit() throws, after the loop or on its
\* rate-limited exit, is caught and answered as a bad request, and so is the
\* rejection of Promise.all (every runCli() gets the same prompt, so when one
\* execFile throws each of them does and no process was started).
handleMultiBody(h, body, t) ==
    LET w == Work(h)
    IN  IF body.kind = "invalid" THEN Outcome(w, "badRequest", "idle")
        ELSE IF body.kind = "noPrompt" THEN Outcome(w, "promptRequired", "idle")
        ELSE LET clis == IF body.clis = <<>> THEN <<"claude", "gemini">> ELSE body.clis
                 c == consumeMore(w, Len(clis) - 1, t)
             IN  IF ~audit(body.prompt) THEN Outcome(c.w, "badRequest", "idle")
                 ELSE IF ~c.ok THEN Outcome(c.w, "rateLimited", "idle")
                 ELSE LET w2 == runClis(c.w, clis, body.prompt, t)
                      IN  IF w2.threw THEN Outcome(w2, "badRequest", "idle")
                          ELSE IF w2.started > 0 THEN Outcome(w2, "pending", "cli")
                          ELSE Outcome(w2, "multiResults", "idle")

\* The handler's next run on the request suspended at readBody() with history h.
handleBody(url, h, body, t) ==
    IF url = "/analyze" THEN handleAnalyzeBody(h, body, t) ELSE handleMultiBody(h, body, t)

\* ---- the server as a state machine

Reqs == 1..MaxReqs
Idle == [pc |-> "idle", url |-> "-", running |-> 0, hist |-> <<>>]
NoStep == [kind |-> "none", hist |-> <<>>, resp |-> "-"]

\* The state a synchronous run of the handler leaves behind.
Commit(r, o, url, running) ==
    /\ violations' = o.w.violations
    /\ bannedUntil' = o.w.bannedUntil
    /\ activeClis' = o.w.activeClis
    /\ tokens' = o.w.tokens
    /\ lastRefill' = o.w.lastRefill
    /\ banStart' = banStart
    /\ sinceClear' = sinceClear
    /\ req' = [req EXCEPT ![r] =
                  IF o.pc = "idle" THEN Idle
                  ELSE [pc |-> o.pc, url |-> url, running |-> running,
                        hist |-> IF o.pc = "body" THEN o.w.hist ELSE <<>>]]

\* The server once it listens, on any runtime.
InitServer ==
    /\ now = 0
    /\ capacity = ServerCapacity
    /\ refillIntervalMs = ServerRefillIntervalMs
    /\ tokens = capacity
    /\ lastRefill = now
    /\ t0 = now
    /\ credited = 0
    /\ capBound = FALSE
    /\ lastCallAt = now
    /\ emptiedAt = -1
    /\ due = FALSE
    /\ results = <<>>
    /\ lastRemaining = -1
    /\ InitTwin
    /\ violations = <<>>
    /\ bannedUntil = 0
    /\ activeClis = 0
    /\ req = [r \in Reqs |-> Idle]
    /\ last = NoStep
    /\ banStart = -1
    /\ sinceClear = <<>>
    /\ InitLib

\* The server on a runtime whose execFile checks its arguments; no prompt of
\* Spec or SpecConc holds U+0000, so the runtime makes no difference to them.
Init ==
    /\ InitServer
    /\ argsChecked = TRUE
    /\ InitRegex
    /\ InitChild

\* A request arrives and its handler runs to its first await or to its answer.
Arrive(r, method, hostOK, tok, url) ==
    /\ req[r].pc = "idle"
    /\ \A q \in Reqs : q < r => req[q].pc # "idle"
    /\ \E o \in {handleArrival(method, hostOK, tok, url, now)} :
          /\ Commit(r, o, url, 0)
          /\ last' = [kind |-> "arrive", hist |-> o.w.hist, resp |-> o.resp]
    /\ UNCHANGED <<now, capacity, refillIntervalMs, rlObs, twinObs, libVars>>

\* readBody() settles and the handler runs on to the CLI processes or to its answer.
BodyRead(r, body) ==
    /\ req[r].pc = "body"
    /\ \E o \in {handleBody(req[r].url, req[r].hist, body, now)} :
          /\ Commit(r, o, req[r].url, o.w.started)
          /\ last' = [kind |-> "body", hist |-> o.w.hist, resp |-> o.resp]
    /\ UNCHANGED <<now, capacity, refillIntervalMs, rlObs, twinObs, libVars>>

\* A CLI process ends and execFile's callback runs; when it was the request's
\* last one the handler resumes and answers.
CliDone(r, ok) ==
    /\ req[r].pc = "cli"
    /\ req[r].running > 0
    /\ activeClis' = activeClis - 1
    /\ LET left == req[r].running - 1
           resp == IF left > 0 THEN "pending"
                   ELSE IF req[r].url = "/multi-analyze" THEN "multiResults"
                   ELSE IF ok THEN "cliResponse" ELSE "cliError"
       IN  /\ req' = [req EXCEPT ![r] =
                         IF left > 0 THEN [@ EXCEPT !.running = left] ELSE Idle]
           /\ last' = [kind |-> "cliDone", hist |-> <<>>, resp |-> resp]
    /\ UNCHANGED <<now, capacity, refillIntervalMs, tokens, lastRefill, rlObs, twinObs, libVars,
                   violations, bannedUntil, banStart, sinceClear>>

\* One millisecond passes while every handler is suspended or done.
Tick ==
    /\ now < MaxNow
    /\ now' = now + 1
    /\ last' = NoStep
    /\ UNCHANGED <<capacity, refillIntervalMs, tokens, lastRefill, rlObs, twinObs, libVars,
                   srvVars, banStart, sinceClear>>

Next ==
    \/ \E r \in Reqs, method \in Methods, hostOK \in BOOLEAN, url \in Urls :
          \E tok \in (IF method = "POST" THEN TokenInputs ELSE {NoToken}) :
             Arrive(r, method, hostOK, tok, url)
    \/ \E r \in Reqs : \E body \in Bodies(req[r].url) : BodyRead(r, body)
    \/ \E r \in Reqs, ok \in BOOLEAN : CliDone(r, ok)
    \/ Tick

Spec == Init /\ [][Next]_vars

\* SpecConc: the same handlers, interleaved at their awaits, while whole
\* refill intervals pass between their runs.
Elapse ==
    /\ now < MaxIntervals * ServerRefillIntervalMs
    /\ now' = now + ServerRefillIntervalMs
    /\ last' = NoStep
    /\ UNCHANGED <<capacity, refillIntervalMs, tokens, lastRefill, rlObs, twinObs, libVars,
                   srvVars, banStart, sinceClear>>

NextConc ==
    \/ \E r \in Reqs, method \in Methods, hostOK \in BOOLEAN, url \in Urls :
          \E tok \in (IF method = "POST" THEN TokenInputs ELSE {NoToken}) :
             Arrive(r, method, hostOK, tok, url)
    \/ \E r \in Reqs : \E body \in Bodies(req[r].url) : BodyRead(r, body)
    \/ \E r \in Reqs, ok \in BOOLEAN : CliDone(r, ok)
    \/ Elapse

SpecConc == Init /\ [][NextConc]_vars

\* SpecCli: the same handlers on either kind of runtime, given prompts that
\* wrapPrompt() lets through: a plain one and one that is the character U+0000
\* (the JSON body {"prompt": "\u0000"}).
NulPrompt == [pad |-> 0, tail |-> <<"U+0000">>]
CliPrompts == {[pad |-> 0, tail |-> <<"a">>], NulPrompt}
CliBodies(url) ==
    [kind : {"prompt"}, prompt : CliPrompts,
     clis : IF url = "/analyze" THEN {<<>>} \cup {<<c>> : c \in CliNames}
            ELSE IF url = "/multi-analyze" THEN SeqsUpTo(MultiCliNames, MaxClis)
            ELSE {}]

InitCli ==
    /\ InitServer
    /\ argsChecked \in BOOLEAN
    /\ InitRegex
    /\ InitChild

NextCli ==
    \/ \E r \in Reqs, method \in Methods, hostOK \in BOOLEAN, url \in Urls :
          \E tok \in (IF method = "POST" THEN TokenInputs ELSE {NoToken}) :
             Arrive(r, method, hostOK, tok, url)
    \/ \E r \in Reqs : \E body \in CliBodies(req[r].url) : BodyRead(r, body)
    \/ \E r \in Reqs, ok \in BOOLEAN : CliDone(r, ok)

SpecCli == InitCli /\ [][NextCli]_vars


\* ---------------------------------------- the violation tracker on its own

\* SpecBan drives recordViolation() and isBanned() of index.js with a clock that
\* advances by half a ban window or by a whole ban duration.
ShortStepMs == BAN_WINDOW_MS \div 2
MaxNowBan == MaxBanSteps * ShortStepMs

InitBan ==
    /\ now = 0
    /\ capacity = ServerCapacity
    /\ refillIntervalMs = ServerRefillIntervalMs
    /\ tokens = capacity
    /\ lastRefill = now
    /\ t0 = now
    /\ credited = 0
    /\ capBound = FALSE
    /\ lastCallAt = now
    /\ emptiedAt = -1
    /\ due = FALSE
    /\ results = <<>>
    /\ lastRemaining = -1
    /\ InitTwin
    /\ violations = <<>>
    /\ bannedUntil = 0
    /\ activeClis = 0
    /\ req = <<>>
    /\ last = NoStep
    /\ banStart = -1
    /\ sinceClear = <<>>
    /\ argsChecked = TRUE
    /\ InitRegex
    /\ InitChild
    /\ InitLib

\* Some handler calls recordViolation().
BanRecordViolation ==
    LET rv == recordViolation(violations, bannedUntil, now)
    IN  /\ violations' = rv.violations
        /\ bannedUntil' = rv.bannedUntil
        /\ banStart' = IF rv.banned THEN now ELSE banStart
        /\ sinceClear' = IF rv.banned THEN <<>>
                         ELSE SelectSeq(Append(sinceClear, now),
                                        LAMBDA x : x >= now - BAN_WINDOW_MS)
        /\ UNCHANGED <<rlVars, rlObs, twinObs, libVars, activeClis, req, last>>

\* Time passes with no violation.
BanTick(d) ==
    /\ now + d <= MaxNowBan
    /\ now' = now + d
    /\ UNCHANGED <<capacity, refillIntervalMs, tokens, lastRefill, rlObs, twinObs, libVars,
                   srvVars, srvObs>>

NextBan ==
    \/ BanRecordViolation
    \/ \E d \in {ShortStepMs, BAN_DURATION_MS} : BanTick(d)

SpecBan == InitBan /\ [][NextBan]_vars

\* ----------------------------------------------------------- token-auth.js

\* SpecAuth starts the process any number of times on one storage directory:
\* each start runs createTokenAuth() on whatever the credential file holds, and
\* the running process answers validate() calls. The file's text is a string
\* over FileChars; crypto.randomUUID() returns some identifier of UUIDs.
FileChars == {"u", "v", " ", "\n"}
Whitespace == {" ", "\n"}
UUIDs == {<<"u">>, <<"v">>}
\* Permissions of an existing file for the process's user.
Modes == {"rw", "r", "w", "none"}
Readable(f) == f.kind = "file" /\ f.mode \in {"rw", "r"}
Writable(f) == f.kind = "file" /\ f.mode \in {"rw", "w"}

\* String.prototype.trim()
RECURSIVE trimStart(_)
trimStart(s) ==
    IF s # <<>> /\ Head(s) \in Whitespace THEN trimStart(Tail(s)) ELSE s
RECURSIVE trimEnd(_)
trimEnd(s) ==
    IF s # <<>> /\ s[Len(s)] \in Whitespace
    THEN trimEnd(SubSeq(s, 1, Len(s) - 1)) ELSE s
trim(s) == trimEnd(trimStart(s))

Files ==
    {NoFile} \cup
    {[kind |-> "file", mode |-> m, text |-> t] :
        m \in Modes, t \in SeqsUpTo(FileChars, MaxFileLen)}

\* createTokenAuth() reading the file without trimming it.
createTokenAuthNoTrim(file, uuid) ==
    LET existing == IF Readable(file) THEN file.text ELSE <<>>
        tk == IF existing # <<>> THEN existing ELSE uuid
        written == tk \o <<"\n">>
    IN  IF file.kind = "missing"
        THEN [ok |-> TRUE, token |-> tk, generated |-> existing = <<>>,
              file |-> [kind |-> "file", mode |-> "rw", text |-> written]]
        ELSE IF Writable(file)
        THEN [ok |-> TRUE, token |-> tk, generated |-> existing = <<>>,
              file |-> [file EXCEPT !.text = written]]
        ELSE [ok |-> FALSE, token |-> <<>>, generated |-> existing = <<>>,
              file |-> file]

\* createTokenAuth() generating a token at every start.
createTokenAuthAlwaysNew(file, uuid) ==
    LET written == uuid \o <<"\n">>
    IN  IF file.kind = "missing"
        THEN [ok |-> TRUE, token |-> uuid, generated |-> TRUE,
              file |-> [kind |-> "file", mode |-> "rw", text |-> written]]
        ELSE IF Writable(file)
        THEN [ok |-> TRUE, token |-> uuid, generated |-> TRUE,
              file |-> [file EXCEPT !.text = written]]
        ELSE [ok |-> FALSE, token |-> <<>>, generated |-> TRUE, file |-> file]

\* createTokenAuth() on the credential file `file`, with uuid what
\* crypto.randomUUID() would return: readFileSync(...).trim() is the token when
\* the read succeeds and leaves text, otherwise uuid is; writeFileSync then
\* stores token + "\n" (mode 0o600 applies to a file it creates) or throws when
\* the existing file cannot be written.
createTokenAuth(file, uuid) ==
    LET existing == IF Readable(file) THEN trim(file.text) ELSE <<>>
        tk == IF existing # <<>> THEN existing ELSE uuid
        written == tk \o <<"\n">>
    IN  IF file.kind = "missing"
        THEN [ok |-> TRUE, token |-> tk, generated |-> existing = <<>>,
              file |-> [kind |-> "file", mode |-> "rw", text |-> written]]
        ELSE IF Writable(file)
        THEN [ok |-> TRUE, token |-> tk, generated |-> existing = <<>>,
              file |-> [file EXCEPT !.text = written]]
        ELSE [ok |-> FALSE, token |-> <<>>, generated |-> existing = <<>>,
              file |-> file]

\* What a caller may hand to validate(): undefined, null, "", the token, other
\* identifiers, and the file's line (the token with its newline).
Candidates ==
    {Undefined, Null, Str(<<>>), Str(authToken), Str(authToken \o <<"\n">>)}
    \cup {Str(u) : u \in UUIDs}

\* The bucket and the server, unused by the library specifications.
InitIdle ==
    /\ now = 0
    /\ capacity = ServerCapacity
    /\ refillIntervalMs = ServerRefillIntervalMs
    /\ tokens = capacity
    /\ lastRefill = now
    /\ t0 = now
    /\ credited = 0
    /\ capBound = FALSE
    /\ lastCallAt = now
    /\ emptiedAt = -1
    /\ due = FALSE
    /\ results = <<>>
    /\ lastRemaining = -1
    /\ InitTwin
    /\ violations = <<>>
    /\ bannedUntil = 0
    /\ activeClis = 0
    /\ req = <<>>
    /\ last = NoStep
    /\ banStart = -1
    /\ sinceClear = <<>>
    /\ argsChecked = TRUE
    /\ InitRegex
    /\ InitChild
idleVars == <<rlVars, rlObs, twinObs, srvVars, srvObs>>

InitAuth ==
    /\ InitIdle
    /\ InitExt
    /\ tokenFile \in Files
    /\ authToken = <<>>
    /\ heldBefore = NoFile
    /\ generated = FALSE
    /\ inits = 0
    /\ lastValidate = <<>>
    /\ rejected = 0
    /\ prompt = <<>>
    /\ wrapped = NotRun
    /\ text = <<>>
    /\ home = FALSE
    /\ sanitized = NotRun

\* The process starts (again): createTokenAuth() runs on the current file.
AuthStart(uuid) ==
    /\ inits < MaxInits
    /\ LET a == createTokenAuth(tokenFile, uuid)
       IN  /\ tokenFile' = a.file
           /\ authToken' = a.token
           /\ generated' = a.generated
           /\ inits' = IF a.ok THEN inits + 1 ELSE inits
    /\ heldBefore' = tokenFile
    /\ lastValidate' = <<>>
    /\ rejected' = 0
    /\ UNCHANGED <<idleVars, guardVars, sanVars, extVars>>

\* The running process is asked to validate a candidate.
AuthValidate(c) ==
    /\ authToken # <<>>
    /\ LET v == validate(authToken, c)
       IN  /\ lastValidate' = <<c, v>>
           /\ rejected' = IF ~v /\ rejected < MaxRejected THEN rejected + 1 ELSE rejected
    /\ UNCHANGED <<authVars, heldBefore, generated, inits>>
    /\ UNCHANGED <<idleVars, guardVars, sanVars, extVars>>

\* Someone removes the credential file while the process runs or is stopped.
AuthFileRemoved ==
    /\ tokenFile.kind = "file"
    /\ tokenFile' = NoFile
    /\ UNCHANGED <<authToken, authObs>>
    /\ UNCHANGED <<idleVars, guardVars, sanVars, extVars>>

NextAuth ==
    \/ \E uuid \in UUIDs : AuthStart(uuid)
    \/ \E c \in Candidates : AuthValidate(c)
    \/ AuthFileRemoved

SpecAuth == InitAuth /\ [][NextAuth]_vars

\* ------------------------------------------------- security.js: SpecGuard

\* SpecGuard hands wrapPrompt one prompt: some pieces after a run of spaces
\* whose length puts the prompt near MAX_PROMPT_LENGTH or far below it.
GuardPads ==
    {0, MAX_PROMPT_LENGTH + 1} \cup {MAX_PROMPT_LENGTH - k : k \in 0..MaxPadGap}
GuardPrompts == [pad : GuardPads, tail : SeqsUpTo(Pieces, MaxTail)]

InitGuard ==
    /\ InitIdle
    /\ InitExt
    /\ tokenFile = NoFile
    /\ authToken = <<>>
    /\ heldBefore = NoFile
    /\ generated = FALSE
    /\ inits = 0
    /\ lastValidate = <<>>
    /\ rejected = 0
    /\ prompt \in GuardPrompts
    /\ wrapped = NotRun
    /\ text = <<>>
    /\ home = FALSE
    /\ sanitized = NotRun

\* wrapPrompt(prompt) is called.
GuardWrap ==
    /\ ~wrapped.done
    /\ wrapped' = wrapPrompt(prompt)
    /\ UNCHANGED <<prompt, idleVars, authVars, authObs, sanVars, extVars>>

NextGuard == GuardWrap

SpecGuard == InitGuard /\ [][NextGuard]_vars

\* --------------------------------------------------- security.js: SpecSan

\* A text handed to sanitizeOutput is a sequence of items [c, n]: the piece c
\* repeated n times. A piece is one character or a word the patterns and the
\* HOME replacement look for:
\*   "secret="    a credential keyword with its separator
\*   "AKIA<16>"   an AWS access key id, AKIA and 16 capitals or digits
\*   "/root"      the value of process.env.HOME
\*   "v"          a character that is not whitespace and completes no pattern
\*   " ", "\n"    whitespace
\* and the texts sanitizeOutput itself inserts. Of SENSITIVE_PATTERNS the AWS
\* key and the credential assignment are modelled, in their order in the list.
MAX_RESPONSE_SIZE == 32 * 1024
Item(c, n) == [c |-> c, n |-> n]
MarkerRest == " response exceeded 32KB limit]"
\* "\n[TRUNCATED: response exceeded 32KB limit]"
Marker == <<Item("\n", 1), Item("[TRUNCATED:", 1), Item(MarkerRest, 1)>>
PieceWidth(c) ==
    CASE c = "secret=" -> 7
      [] c = "AKIA<16>" -> 20
      [] c = "sk-<20>" -> 23
      [] c = "[REDACTED:API_KEY]" -> 18
      [] c = "/root" -> 5
      [] c = "[TRUNCATED:" -> 11
      [] c = MarkerRest -> 30
      [] c = "[REDACTED:AWS_KEY]" -> 18
      [] c = "[REDACTED:CREDENTIAL]" -> 21
      [] c = "[HOME]" -> 6
      [] OTHER -> 1
\* text.length
RECURSIVE TextLength(_)
TextLength(q) ==
    IF q = <<>> THEN 0 ELSE PieceWidth(Head(q).c) * Head(q).n + TextLength(Tail(q))
\* \s and \S
IsSpace(c) == c \in {" ", "\n"}
IsNonSpace(c) == ~IsSpace(c) /\ c # MarkerRest

\* result.slice(0, k): an item the cut falls in keeps its first characters; the
\* beginning of a word is so many characters that complete no pattern.
RECURSIVE slice(_, _)
slice(q, k) ==
    IF q = <<>> \/ k <= 0 THEN <<>>
    ELSE LET h == Head(q)
             w == PieceWidth(h.c) * h.n
         IN  IF w <= k THEN <<h>> \o slice(Tail(q), k - w)
             ELSE IF PieceWidth(h.c) = 1 THEN <<Item(h.c, k)>>
             ELSE <<Item("v", k)>>

\* if (result.length > MAX_RESPONSE_SIZE) result = result.slice(0, MAX_RESPONSE_SIZE) + marker
truncate(q) ==
    IF TextLength(q) > MAX_RESPONSE_SIZE
    THEN slice(q, MAX_RESPONSE_SIZE) \o Marker
    ELSE q

\* result.replace(pattern, replacement) for a pattern that one word of the text
\* matches: with the g flag every such word becomes the marker.
RECURSIVE replaceWord(_, _, _)
replaceWord(q, word, marker) ==
    IF q = <<>> THEN <<>>
    ELSE IF Head(q).c = word
    THEN <<Item(marker, Head(q).n)>> \o replaceWord(Tail(q), word, marker)
    ELSE <<Head(q)>> \o replaceWord(Tail(q), word, marker)

\* result.replace(/sk-[a-zA-Z0-9]{20,}/g, "[REDACTED:API_KEY]")
redactApiKey(q) == replaceWord(q, "sk-<20>", "[REDACTED:API_KEY]")

\* result.replace(/AKIA[0-9A-Z]{16}/g, "[REDACTED:AWS_KEY]")
RECURSIVE redactAwsKey(_)
redactAwsKey(q) ==
    IF q = <<>> THEN <<>>
    ELSE IF Head(q).c = "AKIA<16>"
    THEN <<Item("[REDACTED:AWS_KEY]", Head(q).n)>> \o redactAwsKey(Tail(q))
    ELSE <<Head(q)>> \o redactAwsKey(Tail(q))

\* The first index from i on whose item is not whitespace (Len(q) + 1 if none).
RECURSIVE SkipSpace(_, _)
SkipSpace(q, i) ==
    IF i <= Len(q) /\ IsSpace(q[i].c) THEN SkipSpace(q, i + 1) ELSE i
\* The first index from i on whose item is not of \S (Len(q) + 1 if none).
RECURSIVE SkipNonSpace(_, _)
SkipNonSpace(q, i) ==
    IF i <= Len(q) /\ IsNonSpace(q[i].c) THEN SkipNonSpace(q, i + 1) ELSE i

\* result.replace(/(?:password|...|secret|...)\s*[:=]\s*\S+/gi, "[REDACTED:CREDENTIAL]"):
\* from the left, a keyword with its separator, any whitespace and the longest
\* run of non-whitespace after it become one marker.
RECURSIVE redactCredentialFrom(_, _)
redactCredentialFrom(q, i) ==
    IF i > Len(q) THEN <<>>
    ELSE IF q[i].c = "secret="
    THEN LET j == SkipSpace(q, i + 1)
             k == SkipNonSpace(q, j)
         IN  IF k > j
             THEN <<Item("[REDACTED:CREDENTIAL]", 1)>> \o redactCredentialFrom(q, k)
             ELSE <<q[i]>> \o redactCredentialFrom(q, i + 1)
    ELSE <<q[i]>> \o redactCredentialFrom(q, i + 1)
redactCredential(q) == redactCredentialFrom(q, 1)

\* The replace of a pattern without the g flag: the first match only.
RECURSIVE replaceFirstWord(_, _, _)
replaceFirstWord(q, word, marker) ==
    IF q = <<>> THEN <<>>
    ELSE IF Head(q).c = word
    THEN (IF Head(q).n > 1
          THEN <<Item(marker, 1), Item(word, Head(q).n - 1)>>
          ELSE <<Item(marker, 1)>>) \o Tail(q)
    ELSE <<Head(q)>> \o replaceFirstWord(Tail(q), word, marker)
redactFirstOnly(q) ==
    redactCredential(replaceFirstWord(replaceFirstWord(q, "sk-<20>", "[REDACTED:API_KEY]"),
                                      "AKIA<16>", "[REDACTED:AWS_KEY]"))

\* for (const [pattern, replacement] of SENSITIVE_PATTERNS) result = result.replace(...)
redact(q) == redactCredential(redactAwsKey(redactApiKey(q)))

\* if (home) result = result.replaceAll(home, "[HOME]")
RECURSIVE replaceHome(_)
replaceHome(q) ==
    IF q = <<>> THEN <<>>
    ELSE IF Head(q).c = "/root"
    THEN <<Item("[HOME]", Head(q).n)>> \o replaceHome(Tail(q))
    ELSE <<Head(q)>> \o replaceHome(Tail(q))

\* sanitizeOutput(text) with process.env.HOME set (h) or not.
sanitizeOutput(q, h) ==
    IF q = <<>> THEN q
    ELSE LET redacted == redact(truncate(q))
         IN  IF h THEN replaceHome(redacted) ELSE redacted

\* SpecSan hands sanitizeOutput one text: some pieces, a run of spaces whose
\* length puts the text near MAX_RESPONSE_SIZE or far below it, some pieces.
SanPieces == {"secret=", "AKIA<16>", "sk-<20>", "/root", "v", " "}
SanPads ==
    {0, MAX_RESPONSE_SIZE + 1} \cup {MAX_RESPONSE_SIZE - k : k \in 0..MaxSanGap}
RECURSIVE Items(_)
Items(pieces) ==
    IF pieces = <<>> THEN <<>> ELSE <<Item(Head(pieces), 1)>> \o Items(Tail(pieces))
SanTexts ==
    {Items(pre) \o (IF pad > 0 THEN <<Item(" ", pad)>> ELSE <<>>) \o Items(post) :
        pre \in SeqsUpTo(SanPieces, MaxSanPieces),
        pad \in SanPads,
        post \in SeqsUpTo(SanPieces, MaxSanPieces)}

InitSan ==
    /\ InitIdle
    /\ InitExt
    /\ tokenFile = NoFile
    /\ authToken = <<>>
    /\ heldBefore = NoFile
    /\ generated = FALSE
    /\ inits = 0
    /\ lastValidate = <<>>
    /\ rejected = 0
    /\ prompt = <<>>
    /\ wrapped = NotRun
    /\ text \in SanTexts
    /\ home \in BOOLEAN
    /\ sanitized = NotRun

\* sanitizeOutput(text) is called.
SanSanitize ==
    /\ ~sanitized.done
    /\ sanitized' = [done |-> TRUE, out |-> sanitizeOutput(text, home)]
    /\ UNCHANGED <<text, home, idleVars, authVars, authObs, guardVars, extVars>>

NextSan == SanSanitize

SpecSan == InitSan /\ [][NextSan]_vars

\* ------------------------------------- security.js: the pattern objects

\* The flags of the pattern objects: the lists wrapPrompt() tests are written
\* without the g flag; INVISIBLE_CHARS and every pattern of SENSITIVE_PATTERNS
\* have it and are used by String.prototype.replace only.
RegexFlagsGlobalShell(re) ==
    CASE re = "shell" -> {"g", "i"}
      [] re = "injection" -> {"i"}
      [] re = "ssrf" -> {}
      [] re = "invisible" -> {"g"}
      [] re = "apiKey" -> {"g"}
      [] re = "awsKey" -> {"g"}
      [] re = "credential" -> {"g", "i"}
RegexFlags(re) ==
    CASE re = "shell" -> {"i"}
      [] re = "injection" -> {"i"}
      [] re = "ssrf" -> {}
      [] re = "invisible" -> {"g"}
      [] re = "apiKey" -> {"g"}
      [] re = "awsKey" -> {"g"}
      [] re = "credential" -> {"g", "i"}
Global(re) == "g" \in RegexFlags(re)

\* The matches of a pattern in the pieces q: <<i, j>> when the match begins
\* with piece i and ends with piece j.
MatchSpans(category, q) ==
    {sp \in (1..Len(q)) \X (1..Len(q)) :
        LET i == sp[1]
            j == sp[2]
        IN  CASE category = "shell" ->
                   /\ i < j /\ q[i] = "|" /\ q[j] = "sh"
                   /\ \A k \in (i + 1)..(j - 1) : q[k] = " "
              [] category = "injection" ->
                   /\ i + 1 < j /\ q[i] = "new" /\ q[j] = "instructions:"
                   /\ \A k \in (i + 1)..(j - 1) : q[k] = " "
              [] category = "ssrf" ->
                   j = i + 1 /\ q[i] = "http://" /\ q[j] = "127."}
\* The index in the string (pad spaces, then the pieces q) at which piece i begins.
Offset(pad, q, i) == pad + Widths(SubSeq(q, 1, i - 1))

\* pattern.test(str) on the pattern object re whose lastIndex is li
\* (RegExpBuiltinExec): a pattern without the g flag searches from 0 and
\* leaves lastIndex alone; one with it searches from lastIndex and sets
\* lastIndex to the end of the match, or to 0 when there is none.
testOn(re, pad, q, li) ==
    LET from == IF Global(re) THEN li ELSE 0
        spans == {sp \in MatchSpans(re, q) : Offset(pad, q, sp[1]) >= from}
        first == CHOOSE sp \in spans : \A other \in spans : sp[1] <= other[1]
    IN  IF spans = {}
        THEN [ret |-> FALSE, lastIndex |-> IF Global(re) THEN 0 ELSE li]
        ELSE [ret |-> TRUE,
              lastIndex |-> IF Global(re) THEN Offset(pad, q, first[2] + 1) ELSE li]

\* The three loops of wrapPrompt on the pattern objects in the state l.
RECURSIVE testAll(_, _, _, _)
testAll(order, pad, q, l) ==
    IF order = <<>> THEN [found |-> "none", lastIndex |-> l]
    ELSE LET r == testOn(Head(order), pad, q, l[Head(order)])
             l2 == [l EXCEPT ![Head(order)] = r.lastIndex]
         IN  IF r.ret THEN [found |-> Head(order), lastIndex |-> l2]
             ELSE testAll(Tail(order), pad, q, l2)

\* wrapPrompt(userPrompt) on the pattern objects in the state l: what it
\* returns or throws and the state it leaves. str.replace(INVISIBLE_CHARS, "")
\* sets the lastIndex of a g pattern to 0 before it searches and leaves it 0.
wrapPromptOn(l, p) ==
    LET cleaned == Cleaned(p.tail)
        l1 == IF Global("invisible") THEN [l EXCEPT !["invisible"] = 0] ELSE l
        t == testAll(CheckOrder, p.pad, cleaned, l1)
    IN  IF Length(p) > MAX_PROMPT_LENGTH
        THEN [res |-> Thrown("tooLong", Length(p)), lastIndex |-> l]
        ELSE IF t.found # "none" THEN [res |-> Thrown(t.found, 0), lastIndex |-> t.lastIndex]
        ELSE [res |-> Returned(p.pad, cleaned), lastIndex |-> t.lastIndex]

\* The credential pattern without the g flag: the first match only.
RECURSIVE redactCredentialFirst(_, _)
redactCredentialFirst(q, i) ==
    IF i > Len(q) THEN <<>>
    ELSE IF q[i].c = "secret="
    THEN LET j == SkipSpace(q, i + 1)
             k == SkipNonSpace(q, j)
         IN  IF k > j
             THEN <<Item("[REDACTED:CREDENTIAL]", 1)>> \o SubSeq(q, k, Len(q))
             ELSE <<q[i]>> \o redactCredentialFirst(q, i + 1)
    ELSE <<q[i]>> \o redactCredentialFirst(q, i + 1)

\* result.replace(pattern, replacement) on the pattern object re: with the g
\* flag lastIndex is set to 0, every match is replaced and lastIndex is 0
\* afterwards; without it the first match is replaced and lastIndex is not
\* touched. all and first are the two texts.
replaceOn(re, all, first, l) ==
    IF Global(re) THEN [text |-> all, lastIndex |-> [l EXCEPT ![re] = 0]]
    ELSE [text |-> first, lastIndex |-> l]

\* sanitizeOutput(text) on the pattern objects in the state l, with
\* process.env.HOME set (h) or not.
sanitizeOutputOn(l, q, h) ==
    IF q = <<>> THEN [out |-> q, lastIndex |-> l]
    ELSE LET cut == truncate(q)
             a == replaceOn("apiKey", redactApiKey(cut),
                            replaceFirstWord(cut, "sk-<20>", "[REDACTED:API_KEY]"), l)
             b == replaceOn("awsKey", redactAwsKey(a.text),
                            replaceFirstWord(a.text, "AKIA<16>", "[REDACTED:AWS_KEY]"),
                            a.lastIndex)
             c == replaceOn("credential", redactCredential(b.text),
                            redactCredentialFirst(b.text, 1), b.lastIndex)
         IN  [out |-> IF h THEN replaceHome(c.text) ELSE c.text, lastIndex |-> c.lastIndex]

\* SpecPure calls wrapPrompt() and sanitizeOutput() any number of times, in
\* any order, on the one set of pattern objects the module holds, while the
\* server's bucket and violation tracker are used in between.
PurePrompts ==
    {[pad |-> 0, tail |-> <<"a">>],
     [pad |-> 0, tail |-> <<"|", " ", "sh">>],
     [pad |-> 3, tail |-> <<"|", "sh">>],
     [pad |-> 0, tail |-> <<"a", "U+FF5C", "U+200B", "sh">>],
     [pad |-> 0, tail |-> <<"new", " ", "instructions:">>],
     [pad |-> 1, tail |-> <<"http://", "127.", "|", "sh">>],
     [pad |-> MAX_PROMPT_LENGTH, tail |-> <<"a">>]}
PureTexts ==
    {<<>>,
     Items(<<"v">>),
     Items(<<"sk-<20>", " ", "sk-<20>">>),
     Items(<<"AKIA<16>", "v", "/root">>),
     Items(<<"secret=", "v", " ", "secret=", "v">>),
     <<Item(" ", MAX_RESPONSE_SIZE), Item("AKIA<16>", 1)>>}

InitPure ==
    /\ InitIdle
    /\ InitExt
    /\ tokenFile = NoFile
    /\ authToken = <<>>
    /\ heldBefore = NoFile
    /\ generated = FALSE
    /\ inits = 0
    /\ lastValidate = <<>>
    /\ rejected = 0
    /\ prompt = <<>>
    /\ wrapped = NotRun
    /\ text = <<>>
    /\ home \in BOOLEAN
    /\ sanitized = NotRun

PureWrap(p) ==
    LET r == wrapPromptOn(lastIndex, p)
    IN  /\ prompt' = p
        /\ wrapped' = r.res
        /\ lastIndex' = r.lastIndex
        /\ UNCHANGED <<idleVars, authVars, authObs, sanVars, cryptoVars, envVars, argsChecked,
                       child, cliResult>>

PureSanitize(q) ==
    LET r == sanitizeOutputOn(lastIndex, q, home)
    IN  /\ text' = q
        /\ sanitized' = [done |-> TRUE, out |-> r.out]
        /\ lastIndex' = r.lastIndex
        /\ UNCHANGED <<home, idleVars, authVars, authObs, guardVars, cryptoVars, envVars,
                       argsChecked, child, cliResult>>

\* A handler calls tryConsume() and recordViolation().
PureServerStep ==
    LET r == tryConsume(tokens, lastRefill, now)
        rv == recordViolation(violations, bannedUntil, now)
    IN  /\ tokens' = r.tokens
        /\ lastRefill' = r.lastRefill
        /\ violations' = rv.violations
        /\ bannedUntil' = rv.bannedUntil
        /\ UNCHANGED <<now, capacity, refillIntervalMs, rlObs, twinObs, activeClis, req,
                       srvObs, libVars>>

NextPure ==
    \/ \E p \in PurePrompts : PureWrap(p)
    \/ \E q \in PureTexts : PureSanitize(q)
    \/ PureServerStep

SpecPure == InitPure /\ [][NextPure]_vars

\* ------------------------------------- index.js: the execFile callback

\* String.prototype.trim() on a text of items.
RECURSIVE trimItemsStart(_)
trimItemsStart(q) ==
    IF q # <<>> /\ IsSpace(Head(q).c) THEN trimItemsStart(Tail(q)) ELSE q
RECURSIVE trimItemsEnd(_)
trimItemsEnd(q) ==
    IF q # <<>> /\ IsSpace(q[Len(q)].c) THEN trimItemsEnd(SubSeq(q, 1, Len(q) - 1)) ELSE q
trimItems(q) == trimItemsEnd(trimItemsStart(q))

\* `Timeout after ${info.timeout / 1000}s` and err.message ("Command failed:
\* ..." with the command line), texts the process did not write.
TimeoutMessage == Items(<<"Timeout after 120s">>)
ErrMessage == Items(<<"Command failed">>)
STDERR_LIMIT == 500

\* (err, stdout, stderr) => {...}: what runCli's promise is resolved with when
\* the process has ended as c, with process.env.HOME set (h) or not; `from`
\* names the stream the returned text was taken from.
execFileCallback(c, h) ==
    IF c.err
    THEN IF c.killed
         THEN [done |-> TRUE, success |-> FALSE, from |-> "none", text |-> TimeoutMessage]
         ELSE IF slice(c.stderr, STDERR_LIMIT) # <<>>
         THEN [done |-> TRUE, success |-> FALSE, from |-> "stderr",
               text |-> slice(c.stderr, STDERR_LIMIT)]
         ELSE [done |-> TRUE, success |-> FALSE, from |-> "none", text |-> ErrMessage]
    ELSE [done |-> TRUE, success |-> TRUE, from |-> "stdout",
          text |-> sanitizeOutput(trimItems(c.stdout), h)]

\* SpecCallback: a CLI process ends, in any way and with any of a few outputs,
\* and the callback runs.
ChildTexts ==
    {<<>>,
     Items(<<"v">>),
     Items(<<" ", "AKIA<16>", "\n">>),
     Items(<<"secret=", "v", " ", "/root">>),
     <<Item("v", STDERR_LIMIT), Item("sk-<20>", 1)>>}

InitCallback ==
    /\ InitIdle
    /\ InitExt
    /\ tokenFile = NoFile
    /\ authToken = <<>>
    /\ heldBefore = NoFile
    /\ generated = FALSE
    /\ inits = 0
    /\ lastValidate = <<>>
    /\ rejected = 0
    /\ prompt = <<>>
    /\ wrapped = NotRun
    /\ text = <<>>
    /\ home \in BOOLEAN
    /\ sanitized = NotRun

\* The process ends.
ChildExit(err, killed, out, errOut) ==
    /\ ~cliResult.done
    /\ child = NoChild
    /\ killed => err
    /\ child' = [err |-> err, killed |-> killed, stdout |-> out, stderr |-> errOut]
    /\ child' # NoChild
    /\ UNCHANGED <<idleVars, authVars, authObs, guardVars, sanVars, cryptoVars, envVars,
                   argsChecked, lastIndex, cliResult>>

\* execFile's callback runs.
CallbackRun ==
    /\ ~cliResult.done
    /\ child # NoChild
    /\ cliResult' = execFileCallback(child, home)
    /\ UNCHANGED <<idleVars, authVars, authObs, guardVars, sanVars, cryptoVars, envVars,
                   argsChecked, lastIndex, child>>

NextCallback ==
    \/ \E err \in BOOLEAN, killed \in BOOLEAN, out \in ChildTexts, errOut \in ChildTexts :
          ChildExit(err, killed, out, errOut)
    \/ CallbackRun

SpecCallback == InitCallback /\ [][NextCallback]_vars


\* --------------------------------------------------- crypto.js: SpecCrypto
\* SpecCrypto: one side encrypts a string under the key of its token, the
\* envelope may be altered on its way, the other side derives a key from a
\* token with Node's crypto or with WebCrypto and decrypts.
InputUnits == Units \ {"u", "v", "U+FFFD"}
LongText == [i \in 1..LongLength |-> "a"]
CryptoTexts ==
    SeqsUpTo(InputUnits, MaxTextLen) \cup {LongText, LongText \o <<"U+4E2D">>}
CryptoTokens == {<<"a">>, <<"U+4E2D">>, <<"U+D83D">>, <<"U+DCC8">>}
NoTamper == [op |-> "none", at |-> 0]
\* What may be done to the bytes of a ciphertext on its way: one byte is
\* changed (the first, the last of the body, the first and the last of the
\* tag), or only the first `at` bytes arrive.
Tampers(raw) ==
    LET L == Len(raw)
    IN  [op : {"flip"}, at : {1, L - TAG_LENGTH, L - TAG_LENGTH + 1, L} \cap 1..L]
        \cup [op : {"truncate"},
              at : {0, 4, 8, 12, 15, L - TAG_LENGTH, L - 1} \cap 0..(L - 1)]
Altered(raw, t) ==
    IF t.op = "flip"
    THEN [raw EXCEPT ![t.at] = IF @.v < 0 THEN Byte(0) ELSE Byte((@.v + 1) % 256)]
    ELSE SubSeq(raw, 1, t.at)

InitCrypto ==
    /\ InitIdle
    /\ tokenFile = NoFile
    /\ authToken = <<>>
    /\ heldBefore = NoFile
    /\ generated = FALSE
    /\ inits = 0
    /\ lastValidate = <<>>
    /\ rejected = 0
    /\ prompt = <<>>
    /\ wrapped = NotRun
    /\ text = <<>>
    /\ home = FALSE
    /\ sanitized = NotRun
    /\ sendToken \in CryptoTokens
    /\ plaintext \in CryptoTexts
    /\ shortTags \in BOOLEAN
    /\ envelope = NoEnvelope
    /\ tamper = NoTamper
    /\ openToken = <<>>
    /\ sendKey = NoKey
    /\ openKey = NoKey
    /\ openImpl = "-"
    /\ decrypted = NotRun
    /\ env = <<>>
    /\ cleanEnv = NotRun

libIdleVars ==
    <<authVars, authObs, guardVars, sanVars, envVars, argsChecked, lastIndex, child, cliResult>>

\* encrypt(plaintext, deriveKey(sendToken))
CryptoEncrypt(r) ==
    /\ envelope = NoEnvelope
    /\ sendKey' = deriveKey(sendToken)
    /\ envelope' = encrypt(plaintext, deriveKey(sendToken), randomBytes(r))
    /\ UNCHANGED <<sendToken, plaintext, shortTags, tamper, openToken, openKey, openImpl,
                   decrypted>>
    /\ UNCHANGED <<idleVars, libIdleVars>>

\* The ciphertext is altered between the two sides.
CryptoTamper ==
    /\ envelope # NoEnvelope
    /\ tamper = NoTamper
    /\ ~decrypted.done
    /\ LET raw == fromBase64(envelope.ciphertext)
       IN  \E t \in Tampers(raw) :
              /\ tamper' = t
              /\ envelope' = [envelope EXCEPT !.ciphertext = toBase64(Altered(raw, t))]
    /\ UNCHANGED <<sendToken, plaintext, shortTags, openToken, sendKey, openKey, openImpl,
                   decrypted>>
    /\ UNCHANGED <<idleVars, libIdleVars>>

\* decrypt(envelope, key), the key derived from tok by Node's crypto or by WebCrypto.
CryptoDecrypt(tok, web) ==
    /\ envelope # NoEnvelope
    /\ ~decrypted.done
    /\ LET key == IF web THEN webDeriveKey(tok) ELSE deriveKey(tok)
       IN  /\ openKey' = key
           /\ decrypted' = decrypt(envelope, key, shortTags)
    /\ openToken' = tok
    /\ openImpl' = IF web THEN "web" ELSE "node"
    /\ UNCHANGED <<sendToken, plaintext, shortTags, envelope, tamper, sendKey>>
    /\ UNCHANGED <<idleVars, libIdleVars>>

NextCrypto ==
    \/ \E r \in 0..(MaxIv - 1) : CryptoEncrypt(r)
    \/ CryptoTamper
    \/ \E tok \in CryptoTokens, web \in BOOLEAN : CryptoDecrypt(tok, web)

SpecCrypto == InitCrypto /\ [][NextCrypto]_vars

\* ------------------------------------------------- claims on the bucket

\* C1: in every reachable state of the bucket, after any calls and any idle
\* time between them, tokens is at most capacity, and remaining() never
\* returns more than capacity.
C1_TokensAtMostCapacity ==
    /\ tokens <= capacity
    /\ lastRemaining <= capacity

\* C1's case: the cap cut a credit after an idle time and remaining()
\* returned exactly capacity.
C1_Witness ==
    /\ capBound
    /\ credited > 0
    /\ lastRemaining = capacity
    /\ lastCallAt = now

\* C9: when the bucket was left empty at an instant and exactly one refill
\* interval has passed since, the first tryConsume() returns true and a second
\* one at the same instant returns false.
C9_ExactlyOneAfterOneInterval ==
    due =>
        /\ Len(results) >= 1 => results[1] = TRUE
        /\ Len(results) >= 2 => results[2] = FALSE

\* C9's case: one interval after the emptying, two tryConsume() calls were made.
C9_Witness ==
    /\ due
    /\ Len(results) = 2
    /\ capacity >= 2

\* C10: lastRefill stays at a whole number of refill intervals from the
\* creation instant, and while the cap has never cut a credit the tokens
\* credited up to the latest call at instant t are floor((t - t0) / R).
C10_LosslessCrediting ==
    /\ (lastRefill - t0) % refillIntervalMs = 0
    /\ lastRefill <= lastCallAt
    /\ ~capBound => credited = (lastCallAt - t0) \div refillIntervalMs

\* C10's case: without the cap binding, two tokens were credited over several
\* calls and the latest call fell inside an interval (a fraction is pending).
C10_Witness ==
    /\ ~capBound
    /\ credited >= 2
    /\ lastCallAt > lastRefill
    /\ lastCallAt = now

\* C11: remaining() refills as tryConsume() does and consumes nothing: it
\* returns the count the next tryConsume() at that instant starts from, and a
\* twin bucket that got the same tryConsume() calls and no remaining() call
\* is, once refilled to now, in the same state, so every tryConsume() result
\* is the same with and without the remaining() calls.
C11_RemainingIsPureRefill ==
    /\ [](refill(tokens, lastRefill, now) = refill(shTokens, shLastRefill, now))
    /\ [][RLRemaining =>
            LET b == refill(tokens, lastRefill, now)
            IN  /\ lastRemaining' = b.tokens
                /\ tokens' = b.tokens
                /\ lastRefill' = b.lastRefill
                /\ tryConsume(tokens', lastRefill', now).ret = (lastRemaining' > 0)]_vars

\* C11's case: after a credit, remaining() returned 1 and a tryConsume() call
\* at this instant took that last token.
C11_Witness ==
    /\ lastRet = <<TRUE>>
    /\ lastRemaining = 1
    /\ tokens = 0
    /\ credited > 0
    /\ lastCallAt = now

\* C12: from a full bucket, while no refill interval has ended, exactly the
\* first capacity tryConsume() calls return true and every later one false;
\* tokens is never negative, a successful call lowers it by exactly one and a
\* failed call leaves it at 0.
C12_ExactlyCapacityConsumptions ==
    /\ [](/\ tokens >= 0
          /\ oks = Min(calls, capacity)
          /\ now - t0 < refillIntervalMs => tokens = capacity - oks)
    /\ [][lastRet' # <<>> =>
            LET b == refill(tokens, lastRefill, now)
            IN  IF lastRet' = <<TRUE>>
                THEN b.tokens > 0 /\ tokens' = b.tokens - 1
                ELSE b.tokens = 0 /\ tokens' = 0]_vars

\* C12's case: within the first interval, capacity calls succeeded and the
\* next one failed.
C12_Witness ==
    /\ capacity >= 2
    /\ now - t0 < refillIntervalMs
    /\ calls = capacity + 1
    /\ oks = capacity
    /\ lastRet = <<FALSE>>

\* ------------------------------------------- claims on the violation tracker

\* C36: over any time interval of length D at most
\* capacity + floor(D / refillIntervalMs) + 1 tryConsume() calls return true,
\* wherever the calls are placed and whatever happened before the interval:
\* any run of successful calls, from the i-th to the j-th, has at most that
\* many members for the time it spans (an interval holding the run is at
\* least that long).
C36_BurstBound ==
    \A i \in 1..Len(okTimes) : \A j \in i..Len(okTimes) :
        j - i + 1 <= capacity + ((okTimes[j] - okTimes[i]) \div refillIntervalMs) + 1
\* The bound is met: after at least one refill interval of earlier history,
\* an interval shorter than a refill interval holds capacity + 1 successful
\* calls, the last of them on a token credited inside the interval.
C36_Witness ==
    \E i \in 1..Len(okTimes) : \E j \in i..Len(okTimes) :
        /\ okTimes[i] >= t0 + refillIntervalMs
        /\ okTimes[j] > okTimes[i]
        /\ okTimes[j] - okTimes[i] < refillIntervalMs
        /\ j - i + 1 = capacity + 1

Count(h, x) == Cardinality({i \in 1..Len(h) : h[i] = x})
Rejections == {"validate:fail", "tryConsume:fail", "wrapPrompt:throw"}
Passes == {"validate:ok", "tryConsume:ok", "wrapPrompt:ok", "execFile"}
BadTokens == TokenInputs \ {Str(token)}
BadPrompts == {p \in Prompts : ~wrapPrompt(p).ok}
\* A handler run that changed nothing of the server's state.
NothingChanged(o) ==
    /\ o.w.tokens = tokens
    /\ o.w.lastRefill = lastRefill
    /\ o.w.violations = violations
    /\ o.w.bannedUntil = bannedUntil
    /\ o.w.activeClis = activeClis

\* C3: a ban is not extended while it is active: at an instant before the
\* deadline bannedUntil, no step changes bannedUntil.
C3_BanNotExtended ==
    [][now < bannedUntil => bannedUntil' = bannedUntil]_vars

\* C33: a ban never starts without the threshold being reached: bannedUntil
\* changes only in a recordViolation() call that is at least the
\* BAN_THRESHOLD-th made within the preceding BAN_WINDOW_MS since the log was
\* last cleared, and becomes that instant plus BAN_DURATION_MS; isBanned() is
\* true only while such a ban lasts, so never before the threshold was first
\* reached and not after a ban's deadline until it is reached again.
C33_BanOnlyAtThreshold ==
    /\ [][bannedUntil' # bannedUntil =>
             /\ now' = now
             /\ Cardinality({i \in 1..Len(sinceClear) :
                                sinceClear[i] >= now - BAN_WINDOW_MS}) + 1 >= BAN_THRESHOLD
             /\ bannedUntil' = now + BAN_DURATION_MS
             /\ violations' = <<>>]_vars
    /\ [](isBanned(bannedUntil, now) =>
             /\ banStart >= 0
             /\ banStart <= now
             /\ now < banStart + BAN_DURATION_MS)
    /\ [](banStart = -1 => bannedUntil = 0)
\* A ban has just begun, more than a ban duration and a window after the
\* server started: the call that reached the threshold emptied the log.
C33_Witness ==
    /\ banStart = now
    /\ banStart > BAN_DURATION_MS + BAN_WINDOW_MS
    /\ bannedUntil = now + BAN_DURATION_MS
    /\ violations = <<>>
    /\ sinceClear = <<>>

\* C30: after every recordViolation() call the violation log is in ascending
\* timestamp order, holds only timestamps t with t >= now - BAN_WINDOW_MS, and
\* has fewer than BAN_THRESHOLD entries. (In SpecBan the steps that leave the
\* clock alone are the recordViolation() calls.)
C30_LogAfterRecord ==
    [][now' = now =>
          /\ \A i \in 1..(Len(violations') - 1) : violations'[i] <= violations'[i + 1]
          /\ \A i \in 1..Len(violations') : violations'[i] >= now - BAN_WINDOW_MS
          /\ Len(violations') < BAN_THRESHOLD]_vars
\* A call has just put the latest of BAN_THRESHOLD - 1 entries into a log that
\* an earlier ban had cleared and whose oldest entry is a window old.
C30_Witness ==
    /\ banStart >= 0
    /\ Len(violations) = BAN_THRESHOLD - 1
    /\ violations[Len(violations)] = now
    /\ violations[1] = now - BAN_WINDOW_MS
    /\ violations[1] > banStart

PipelineOrder(h) ==
    /\ \A i \in 1..Len(h) :
          h[i] = "execFile" =>
             /\ \E a, b, c \in 1..i :
                   /\ a < b /\ b < c /\ c < i
                   /\ h[a] = "validate:ok"
                   /\ h[b] = "tryConsume:ok"
                   /\ h[c] = "wrapPrompt:ok"
             /\ h[i - 1] = "wrapPrompt:ok"
             /\ \A j \in 1..i : h[j] \notin Rejections
    /\ Count(h, "validate:fail") > 0 =>
          Count(h, "tryConsume:ok") + Count(h, "tryConsume:fail") = 0
    /\ \A i \in 1..Len(h) :
          h[i] \in Rejections => \A j \in (i + 1)..Len(h) : h[j] \notin Passes

\* C5: in every request's history a CLI process is started only after
\* validate accepted the token, then tryConsume returned true, then wrapPrompt
\* accepted the prompt; a request that fails authentication consumes no bucket
\* token; after a rejection no stage passes and no CLI is started for that
\* request; and a request waits for a CLI process only when it started one.
C5_PipelineOrder ==
    /\ PipelineOrder(last.hist)
    /\ \A r \in DOMAIN req :
          /\ PipelineOrder(req[r].hist)
          /\ req[r].pc = "body" => req[r].hist = <<"validate:ok", "tryConsume:ok">>
    /\ last.kind = "body" /\ last.resp = "pending" => Count(last.hist, "execFile") > 0
    /\ Count(last.hist, "execFile") > 0 => last.resp = "pending"

\* C5's case: a /multi-analyze request started two CLI processes.
C5_Witness ==
    /\ last.kind = "body"
    /\ Count(last.hist, "tryConsume:ok") = 2
    /\ Count(last.hist, "execFile") = 2

\* C6 as claimed: every POST request with a missing, empty or wrong token is
\* answered with the auth error and calls recordViolation() exactly once.
C6_AuthFailureAlwaysRecorded ==
    \A hostOK \in BOOLEAN, url \in Urls, tok \in BadTokens :
        LET o == handleArrival("POST", hostOK, tok, url, now)
        IN  /\ o.resp = "authError"
            /\ Count(o.w.hist, "recordViolation") = 1

\* C6 as amended: every POST request with a missing, empty or wrong token that
\* passes the Host check and arrives while no ban is active is answered with
\* the auth error and calls recordViolation() exactly once, which logs this
\* instant or starts a ban; no bucket token is consumed.
C6_AuthFailureRecordedUnlessBanned ==
    ~isBanned(bannedUntil, now) =>
        \A url \in Urls, tok \in BadTokens :
            LET o == handleArrival("POST", TRUE, tok, url, now)
            IN  /\ o.resp = "authError"
                /\ o.pc = "idle"
                /\ o.w.hist = <<"validate:fail", "recordViolation">>
                /\ \/ /\ o.w.violations # <<>>
                      /\ o.w.violations[Len(o.w.violations)] = now
                      /\ o.w.bannedUntil = bannedUntil
                   \/ /\ o.w.violations = <<>>
                      /\ o.w.bannedUntil = now + BAN_DURATION_MS
                /\ o.w.tokens = tokens
                /\ o.w.lastRefill = lastRefill
                /\ o.w.activeClis = activeClis

\* C6's case: an authentication failure was answered and logged.
C6_Witness ==
    /\ last.kind = "arrive"
    /\ last.resp = "authError"
    /\ Len(violations) >= 2

\* C7: every authenticated, admitted request whose prompt wrapPrompt rejects
\* is answered with an error and calls recordViolation(), whichever CLI it
\* names and however many CLI processes are running.
C7_PolicyViolationAlwaysRecorded ==
    \A r \in Reqs :
        req[r].pc = "body" =>
            \A body \in Bodies(req[r].url) :
                LET o == handleBody(req[r].url, req[r].hist, body, now)
                IN  body.kind = "prompt" /\ body.prompt \in BadPrompts
                    /\ o.resp # "rateLimited"
                    => /\ o.resp \in {"cliError", "multiResults"}
                       /\ Count(o.w.hist, "recordViolation") > 0

\* C8: a request rejected because tryConsume() returned false, at its arrival
\* or in the /multi-analyze loop, calls no recordViolation() and leaves the
\* violation log and bannedUntil unchanged.
C8_RateLimitNotAViolation ==
    [][last'.kind \in {"arrive", "body"} /\ last'.resp = "rateLimited"
       => /\ Count(last'.hist, "tryConsume:fail") = 1
          /\ Count(last'.hist, "recordViolation") = 0
          /\ violations' = violations
          /\ bannedUntil' = bannedUntil]_vars

\* C8's case: a /multi-analyze request was rate-limited in its loop while the
\* violation log held entries.
C8_Witness ==
    /\ last.kind = "body"
    /\ last.resp = "rateLimited"
    /\ Len(violations) > 0

\* C25: a request whose prompt is an encrypted envelope is served like its
\* plaintext: the prompt is decrypted and wrapped, not rejected and not
\* counted as a violation, so the envelope of the harmless prompt "a", sent
\* for an installed CLI while fewer than MAX_CONCURRENT_CLI processes run,
\* starts a CLI process (whose sanitized response is then returned encrypted).
C25_EncryptedPromptServed ==
    \A r \in Reqs :
        (req[r].pc = "body" /\ req[r].url = "/analyze"
            /\ activeClis < MAX_CONCURRENT_CLI) =>
            \A body \in Bodies(req[r].url) :
                (body.kind = "envelope" /\ body.clis = <<"gemini">>) =>
                    LET o == handleBody(req[r].url, req[r].hist, body, now)
                    IN  /\ decrypt(body.prompt, deriveKey(token), FALSE).ok
                        /\ o.resp = "pending"
                        /\ Count(o.w.hist, "wrapPrompt:ok") = 1
                        /\ Count(o.w.hist, "recordViolation") = 0

\* C26: the answer to GET /health carries the current session token, so a
\* client that holds no token learns the valid one from it.
C26_HealthCarriesToken ==
    (last.kind = "arrive" /\ last.resp = "health") =>
        /\ "token" \in DOMAIN healthResponse
        /\ validate(token, Str(healthResponse.token))

\* The tryConsume() calls of the handler run that made the latest step (a run
\* after readBody() carries its request's two earlier calls in its history).
StepCalls(l, x) ==
    IF l.kind = "arrive" THEN Count(l.hist, x)
    ELSE IF l.kind = "body" THEN Count(SubSeq(l.hist, 3, Len(l.hist)), x)
    ELSE 0

\* C31: each CLI of a /multi-analyze request costs one token: the request
\* naming k >= 1 CLIs (two when it names none) goes on to its CLIs exactly when
\* the k - 1 tokens beyond the one taken at its arrival can be consumed; it has
\* then consumed k tokens; otherwise it is answered as rate-limited and
\* neither wrapPrompt() nor execFile is called for it.
C31_EachCliCostsOneToken ==
    \A r \in Reqs :
        (req[r].pc = "body" /\ req[r].url = "/multi-analyze") =>
            \A body \in Bodies(req[r].url) :
                body.kind = "prompt" =>
                    LET k == IF body.clis = <<>> THEN 2 ELSE Len(body.clis)
                        found == refill(tokens, lastRefill, now).tokens
                        o == handleBody(req[r].url, req[r].hist, body, now)
                        admitted == o.resp \in {"pending", "multiResults"}
                    IN  /\ Count(req[r].hist, "tryConsume:ok") = 1
                        /\ admitted <=> found >= k - 1
                        /\ admitted => /\ Count(o.w.hist, "tryConsume:ok") = k
                                       /\ Count(o.w.hist, "tryConsume:fail") = 0
                                       /\ o.w.tokens = (IF k > 1 THEN found ELSE tokens) - (k - 1)
                        /\ ~admitted => /\ o.resp = "rateLimited"
                                        /\ Count(o.w.hist, "tryConsume:fail") = 1
                                        /\ o.w.tokens = 0
                                        /\ Count(o.w.hist, "execFile") = 0
                                        /\ Count(o.w.hist, "wrapPrompt:ok") = 0
                                        /\ Count(o.w.hist, "wrapPrompt:throw") = 0
                                        /\ o.w.activeClis = activeClis
\* A /multi-analyze request naming MaxClis CLIs has just been admitted with
\* MaxClis tokens consumed for it and as many processes started, and another
\* one has just been refused in its loop.
C31_Witness ==
    /\ last.kind = "body"
    /\ last.resp = "pending"
    /\ Count(last.hist, "tryConsume:ok") = MaxClis
    /\ Count(last.hist, "execFile") = MaxClis
    /\ tokens < MaxClis - 1
    /\ \E r \in Reqs : req[r].pc = "body" /\ req[r].url = "/multi-analyze"

\* C34: each inbound request causes at most one violation to be recorded, so
\* that a ban takes at least BAN_THRESHOLD separate requests (a handler run
\* after readBody() carries its request's earlier calls in its history, so the
\* count is over the whole request).
C34_OneViolationPerRequest ==
    last.kind \in {"arrive", "body"} => Count(last.hist, "recordViolation") <= 1

\* C35: no CLI process is started while a ban is active: whenever a request
\* that waits for its body goes on with a body that makes it call execFile,
\* isBanned() is false at that instant, also when the ban began after the
\* request had passed the handler's ban check.
C35_NoCliWhileBanned ==
    \A r \in Reqs :
        req[r].pc = "body" =>
            \A body \in Bodies(req[r].url) :
                LET o == handleBody(req[r].url, req[r].hist, body, now)
                IN  Count(o.w.hist, "execFile") > 0 => ~isBanned(bannedUntil, now)

\* The CLI processes that were spawned and whose execFile callback has not run.
RECURSIVE RunningUpTo(_)
RunningUpTo(n) == IF n = 0 THEN 0 ELSE req[n].running + RunningUpTo(n - 1)
Running == RunningUpTo(MaxReqs)

\* C29: in every reachable state activeClis is the number of spawned CLI
\* processes whose completion callback has not run yet, and lies within
\* 0..MAX_CONCURRENT_CLI; a runCli() call made while activeClis is
\* MAX_CONCURRENT_CLI starts no process; and activeClis is 0 once every
\* process has finished.
C29_ActiveClisCountsProcesses ==
    /\ activeClis = Running
    /\ activeClis \in 0..MAX_CONCURRENT_CLI
    /\ activeClis = MAX_CONCURRENT_CLI =>
           \A name \in CliNames, p \in CliPrompts :
              LET w == runCli(Work(<<>>), name, p, now)
              IN  w.started = 0 /\ w.activeClis = activeClis
    /\ (\A r \in Reqs : req[r].pc # "cli") => activeClis = 0

\* C28: whatever the interleaving of the requests being handled, no update
\* of the bucket or of the violation state is lost: every handler run leaves
\* in the bucket exactly the tokens it found, plus what refill credited, minus
\* one for each tryConsume() that returned true, and never fewer than none
\* (so the admissions never exceed the initial tokens plus the credits);
\* and every recordViolation() call adds its entry to the log or, as the
\* fifth, starts a ban and clears it.
C28_NoLostUpdate ==
    /\ [](tokens \in 0..capacity)
    /\ [][LET taken == StepCalls(last', "tryConsume:ok")
              refused == StepCalls(last', "tryConsume:fail")
              found == IF taken + refused > 0 THEN refill(tokens, lastRefill, now).tokens
                       ELSE tokens
              recorded == Count(last'.hist, "recordViolation")
          IN  /\ tokens' = found - taken
              /\ refused > 0 => tokens' = 0
              /\ Len(violations') = (Len(violations) + recorded) % BAN_THRESHOLD
              /\ bannedUntil' = IF Len(violations) + recorded >= BAN_THRESHOLD
                                THEN now + BAN_DURATION_MS
                                ELSE bannedUntil]_vars
\* Two requests were in flight across a refill interval and the bucket ran
\* out: the later one was refused in the loop of /multi-analyze.
C28_Witness ==
    /\ now >= ServerRefillIntervalMs
    /\ last.kind = "body"
    /\ last.resp = "rateLimited"
    /\ tokens = 0
    /\ lastRefill > 0
    /\ \E r \in Reqs : req[r].pc \in {"body", "cli"}

\* ------------------------------------------ claims on the token authority

\* C13: validate(candidate) returns true exactly when candidate is a non-empty
\* string equal to the token, whatever the number of validate() calls that
\* failed before; the token changes only when a process starts, never while
\* it runs.
C13_ValidateExactMatch ==
    /\ [](lastValidate # <<>> =>
            lastValidate[2] = (/\ lastValidate[1].type = "string"
                               /\ lastValidate[1].chars # <<>>
                               /\ lastValidate[1].chars = authToken))
    /\ [][authToken' # authToken =>
            /\ inits' = inits + 1 \/ authToken' = <<>>
            /\ lastValidate' = <<>>]_vars

\* C13's case: after several rejected candidates the token itself is accepted.
C13_Witness ==
    /\ rejected >= 2
    /\ lastValidate = <<Str(authToken), TRUE>>

\* A text of at most one line: no newline inside once trimmed.
OneLine(s) == \A i \in 1..Len(trim(s)) : trim(s)[i] # "\n"

C15_FileIsTokenLine ==
    (authToken # <<>> /\ tokenFile.kind = "file" /\ OneLine(heldBefore.text)) =>
        /\ tokenFile.text = authToken \o <<"\n">>
        /\ \A i \in 1..Len(authToken) : authToken[i] # "\n"
        /\ trim(tokenFile.text) = authToken

\* C15's case: the file held a token between blanks and now holds that token
\* and a newline.
C15_Witness ==
    /\ authToken # <<>>
    /\ ~generated
    /\ heldBefore.text = <<" ">> \o authToken \o <<" ">>
    /\ tokenFile.text = authToken \o <<"\n">>

\* ------------------------------------------------- claims on wrapPrompt

\* The cleaned text of the prompt matches a pattern of some category.
Blocked(q) == ShellPattern(q) \/ InjectionPattern(q) \/ SsrfPattern(q)
\* The orders in which the three pattern loops could run.
Orders ==
    {o \in [1..3 -> {"shell", "injection", "ssrf"}] :
        \A i, j \in 1..3 : i # j => o[i] # o[j]}

\* C16: the length that is checked is the raw prompt's: wrapPrompt throws the
\* length error, carrying the raw length, exactly when the raw prompt is
\* longer than MAX_PROMPT_LENGTH, whatever else it contains, and a prompt of
\* exactly MAX_PROMPT_LENGTH that matches no pattern is accepted.
C16_LengthCheckedOnRawPrompt ==
    wrapped.done =>
        /\ Length(prompt) > MAX_PROMPT_LENGTH =>
               /\ ~wrapped.ok
               /\ wrapped.error = "tooLong"
               /\ wrapped.got = Length(prompt)
        /\ Length(prompt) <= MAX_PROMPT_LENGTH => wrapped.error # "tooLong"
        /\ (Length(prompt) = MAX_PROMPT_LENGTH /\ ~Blocked(Cleaned(prompt.tail)))
               => wrapped.ok

\* C16's case: a prompt one over the limit whose cleaned text fits the limit
\* (it holds a zero width space) was rejected for its length.
C16_Witness ==
    /\ wrapped.done
    /\ Length(prompt) = MAX_PROMPT_LENGTH + 1
    /\ prompt.pad + Widths(Cleaned(prompt.tail)) <= MAX_PROMPT_LENGTH
    /\ wrapped.error = "tooLong"
    /\ wrapped.got = MAX_PROMPT_LENGTH + 1

\* C17: wrapPrompt accepts exactly the prompts within the length limit whose
\* cleaned text matches no shell, injection or SSRF pattern; running the
\* three loops in any other order would accept the same prompts; a rejected
\* prompt gets the message of the first failing check in the order length,
\* shell, injection, SSRF.
C17_AcceptIffNoCheckFails ==
    wrapped.done =>
        LET cleaned == Cleaned(prompt.tail)
            fits == Length(prompt) <= MAX_PROMPT_LENGTH
        IN  /\ wrapped.ok <=> (fits /\ ~Blocked(cleaned))
            /\ \A o \in Orders :
                   wrapped.ok <=> (fits /\ FirstMatch(o, cleaned) = "none")
            /\ ~wrapped.ok =>
                   wrapped.error =
                      IF ~fits THEN "tooLong"
                      ELSE IF ShellPattern(cleaned) THEN "shell"
                      ELSE IF InjectionPattern(cleaned) THEN "injection"
                      ELSE "ssrf"

\* C17's case: a prompt within the limit that matches a shell and an SSRF
\* pattern was rejected with the shell message.
C17_Witness ==
    /\ wrapped.done
    /\ Length(prompt) <= MAX_PROMPT_LENGTH
    /\ ShellPattern(Cleaned(prompt.tail))
    /\ SsrfPattern(Cleaned(prompt.tail))
    /\ wrapped.error = "shell"

\* C18: a prompt within the length limit whose text, normalized to NFKC and
\* then stripped of the invisible code points, matches a pattern is rejected,
\* wherever invisible code points sit in the raw text; an accepted prompt is
\* wrapped in its cleaned form, which holds no invisible code point.
C18_PatternsSeeCleanedText ==
    wrapped.done =>
        /\ (/\ Length(prompt) <= MAX_PROMPT_LENGTH
            /\ \E category \in {"shell", "injection", "ssrf"} :
                  Matches(category, strip(normalize(prompt.tail))))
               => ~wrapped.ok /\ wrapped.error \in {"shell", "injection", "ssrf"}
        /\ wrapped.ok =>
               /\ wrapped.request = strip(normalize(prompt.tail))
               /\ wrapped.pad = prompt.pad
               /\ \A i \in 1..Len(wrapped.request) :
                      wrapped.request[i] \notin INVISIBLE_CHARS

\* C18's case: the raw text matches no pattern because a zero width space
\* splits the shell pattern and a fullwidth bar stands for "|"; the cleaned
\* text matches and the prompt was rejected.
C18_Witness ==
    /\ wrapped.done
    /\ prompt.tail = <<"U+FF5C", "U+200B", "sh">>
    /\ FirstMatch(CheckOrder, prompt.tail) = "none"
    /\ ~wrapped.ok
    /\ wrapped.error = "shell"

\* ------------------------------------------------ claims on sanitizeOutput

\* The output ends with the truncation marker, untouched.
EndsWithMarker(q) ==
    /\ Len(q) >= Len(Marker)
    /\ SubSeq(q, Len(q) - Len(Marker) + 1, Len(q)) = Marker

\* C19: for every text longer than MAX_RESPONSE_SIZE, the output of
\* sanitizeOutput is at most MAX_RESPONSE_SIZE plus the marker's length long.
C19_OutputBounded ==
    (sanitized.done /\ TextLength(text) > MAX_RESPONSE_SIZE) =>
        TextLength(sanitized.out) <= MAX_RESPONSE_SIZE + TextLength(Marker)

\* C20: for every text longer than MAX_RESPONSE_SIZE, whatever precedes the
\* cut, the output of sanitizeOutput ends with the whole truncation marker.
C20_MarkerIntact ==
    (sanitized.done /\ TextLength(text) > MAX_RESPONSE_SIZE) =>
        EndsWithMarker(sanitized.out)

\* A match of a secret-shape pattern starts at item i of q: a key word, or a
\* credential keyword with its separator, any whitespace and some \S after it.
SecretShapeAt(q, i) ==
    \/ q[i].c \in {"sk-<20>", "AKIA<16>"}
    \/ /\ q[i].c = "secret="
       /\ SkipNonSpace(q, SkipSpace(q, i + 1)) > SkipSpace(q, i + 1)
HasSecretShape(q) == \E i \in 1..Len(q) : SecretShapeAt(q, i)
Markers == {"[REDACTED:API_KEY]", "[REDACTED:AWS_KEY]", "[REDACTED:CREDENTIAL]"}

\* C21: for every text, no part of the output of sanitizeOutput matches a
\* secret-shape pattern: every match was replaced by a redaction marker.
C21_NoSecretShapeInOutput ==
    sanitized.done => ~HasSecretShape(sanitized.out)
\* A text with two matches of one pattern and a match of another was
\* sanitized, and a marker stands in the output.
C21_Witness ==
    /\ sanitized.done
    /\ \E i, j \in 1..Len(text) :
          /\ i < j
          /\ text[i].c = "AKIA<16>"
          /\ text[j].c = "AKIA<16>"
    /\ \E i \in 1..Len(text) : text[i].c = "secret=" /\ SecretShapeAt(text, i)
    /\ \E i \in 1..Len(sanitized.out) : sanitized.out[i].c \in Markers

\* --------------------------------------------- security.js: SpecEnv

ALLOWED_ENV_KEYS == {"PATH", "HOME", "LANG", "TERM", "SHELL", "USER", "TMPDIR"}

\* sanitizeEnv(env): for (const key of ALLOWED_ENV_KEYS)
\*   if (env[key] !== undefined) clean[key] = env[key]
sanitizeEnv(e) == [key \in ALLOWED_ENV_KEYS \cap DOMAIN e |-> e[key]]

\* SpecEnv hands sanitizeEnv one environment: a few of these variables, each
\* with one of two values.
EnvKeys == {"PATH", "HOME", "TMPDIR", "USERPROFILE", "ComSpec", "TEMP", "API_KEY", "TMP"}
EnvValues == {"x", "y"}
Envs ==
    UNION {[keys -> EnvValues] : keys \in {S \in SUBSET EnvKeys : Cardinality(S) <= MaxEnvKeys}}

InitEnv ==
    /\ InitIdle
    /\ tokenFile = NoFile
    /\ authToken = <<>>
    /\ heldBefore = NoFile
    /\ generated = FALSE
    /\ inits = 0
    /\ lastValidate = <<>>
    /\ rejected = 0
    /\ prompt = <<>>
    /\ wrapped = NotRun
    /\ text = <<>>
    /\ home = FALSE
    /\ sanitized = NotRun
    /\ sendToken = <<>>
    /\ plaintext = <<>>
    /\ shortTags = FALSE
    /\ envelope = NoEnvelope
    /\ tamper = NoTamper
    /\ openToken = <<>>
    /\ sendKey = NoKey
    /\ openKey = NoKey
    /\ openImpl = "-"
    /\ decrypted = NotRun
    /\ env \in Envs
    /\ cleanEnv = NotRun

\* sanitizeEnv(env) is called.
EnvSanitize ==
    /\ ~cleanEnv.done
    /\ cleanEnv' = [done |-> TRUE, out |-> sanitizeEnv(env)]
    /\ UNCHANGED <<env, idleVars, authVars, authObs, guardVars, sanVars, cryptoVars, argsChecked, lastIndex,
                   child, cliResult>>

NextEnv == EnvSanitize

SpecEnv == InitEnv /\ [][NextEnv]_vars

\* ------------------------------------------------------- claims on crypto.js

\* No high surrogate without the low one after it, no low one without the
\* high one before it: a string that UTF-8 can hold.
WellFormed(s) ==
    \A i \in 1..Len(s) :
       /\ IsHigh(s[i]) => (i < Len(s) /\ IsLow(s[i + 1]))
       /\ IsLow(s[i]) => (i > 1 /\ IsHigh(s[i - 1]))

\* C22: for every well-formed string S (empty, ASCII, multi-byte, 4000 code
\* units and more) and every derived key K, decrypt(encrypt(S, K), K)
\* returns S.
C22_RoundTrip ==
    (decrypted.done /\ tamper = NoTamper /\ openToken = sendToken /\ WellFormed(plaintext))
        => (decrypted.ok /\ decrypted.text = plaintext)
\* A long string that ends in a multi-byte character came back from decrypt.
C22_Witness ==
    /\ decrypted.done
    /\ tamper = NoTamper
    /\ openToken = sendToken
    /\ Len(plaintext) > LongLength
    /\ plaintext[Len(plaintext)] = "U+4E2D"
    /\ decrypted.ok
    /\ decrypted.text = plaintext

\* C23: decrypt of an envelope whose ciphertext was altered in a byte of its
\* body or of its tag, or was truncated, or was made under another key,
\* fails; it returns no text.
C23_TamperDetected ==
    (decrypted.done /\ (tamper # NoTamper \/ openKey # sendKey)) => ~decrypted.ok

\* C24: the key is a function of the token alone: the key WebCrypto derives
\* from a token is, bit for bit, the 32-byte key deriveKey derives from it,
\* and two different tokens give two different keys.
C24_KeyIsFunctionOfToken ==
    (decrypted.done /\ WellFormed(sendToken) /\ WellFormed(openToken)) =>
        /\ sendKey.length = 32
        /\ openKey.length = 32
        /\ (openToken = sendToken) <=> (openKey = sendKey)
\* WebCrypto derived the key of a token of which deriveKey had derived the
\* key, and the two keys are the same.
C24_Witness ==
    /\ decrypted.done
    /\ openImpl = "web"
    /\ openToken = sendToken
    /\ WellFormed(sendToken)
    /\ openKey = sendKey
    /\ sendKey # NoKey

\* ------------------------------------------------------ claims on sanitizeEnv

\* The allow-list as claimed: the seven POSIX variables and the Windows ones.
ClaimedEnvKeys ==
    {"PATH", "HOME", "LANG", "TERM", "SHELL", "USER", "TMPDIR",
     "USERPROFILE", "USERNAME", "APPDATA", "LOCALAPPDATA", "SystemRoot", "TEMP",
     "HOMEDRIVE", "HOMEPATH", "PATHEXT", "ComSpec"}

\* C27: sanitizeEnv returns the entries of its input whose key is on the
\* allow-list (PATH, HOME, LANG, TERM, SHELL, USER, TMPDIR and the Windows
\* variables), with their values, and no other entry.
C27_ExactlyTheAllowList ==
    cleanEnv.done =>
        cleanEnv.out = [key \in ClaimedEnvKeys \cap DOMAIN env |-> env[key]]

\* ------------------------------------------ claims about the guards' purity

\* C32: wrapPrompt and sanitizeOutput are pure and stateless per call: a call
\* gives the same result, or the same error, for the same argument whatever
\* calls were made before it (the result on the pattern objects as they are
\* now is the result on fresh ones, and no call leaves a lastIndex other than
\* 0 behind), and no call changes the bucket, the violation log, bannedUntil
\* or the token.
C32_GuardsArePure ==
    /\ [](/\ \A p \in PurePrompts : wrapPromptOn(lastIndex, p).res = wrapPrompt(p)
          /\ \A q \in PureTexts :
                sanitizeOutputOn(lastIndex, q, home).out = sanitizeOutput(q, home)
          /\ \A re \in RegexNames : lastIndex[re] = 0)
    /\ [][(prompt' # prompt \/ wrapped' # wrapped \/ text' # text \/ sanitized' # sanitized)
             => UNCHANGED <<tokens, lastRefill, violations, bannedUntil, authToken,
                            tokenFile>>]_vars
\* wrapPrompt() has just thrown on a prompt with a shell pattern that does not
\* begin the string, after sanitizeOutput() redacted a text, with the bucket
\* used and violations recorded in between.
C32_Witness ==
    /\ wrapped.done /\ ~wrapped.ok /\ wrapped.error = "shell"
    /\ prompt.pad > 0
    /\ sanitized.done /\ sanitized.out # text
    /\ tokens < capacity
    /\ violations # <<>>

\* ---------------------------------- claims about the execFile callback

\* C37: every text a CLI process produced that is returned to the caller has
\* passed through sanitizeOutput first: the response of the success path is
\* sanitizeOutput of the trimmed stdout, and the error text of the failure
\* path, when it is taken from stderr, is sanitizeOutput of what was taken.
C37_CliTextSanitized ==
    cliResult.done =>
        /\ cliResult.from = "stdout" =>
               cliResult.text = sanitizeOutput(trimItems(child.stdout), home)
        /\ cliResult.from = "stderr" =>
               cliResult.text = sanitizeOutput(slice(child.stderr, STDERR_LIMIT), home)

====
